---------------------------- MODULE Spec2Model ----------------------------
(***************************************************************************)
(* A model of the event emitter of imyangyong/utils (event-emitter.ts,     *)
(* kept in src/unnamed/part_000).                                          *)
(*                                                                         *)
(* JavaScript runs one synchronous turn at a time.  Every public method of *)
(* the emitter is one synchronous turn up to its first await, so a method  *)
(* call is one action here; what follows an await (the dispatch of an      *)
(* emission, the continuation of a pending next(), the settling of a       *)
(* listener's promise) is a separate action.  User code is the             *)
(* environment: it calls the methods in any order, at top level or from    *)
(* inside a listener.                                                      *)
(*                                                                         *)
(* A JavaScript Set or Map iterates in insertion order, so a Set is a      *)
(* sequence without duplicates.                                            *)
(***************************************************************************)
EXTENDS Integers, Sequences, FiniteSets, TLC

VARIABLES
  events,                \* eventsMap:    instance -> (event name -> Set of listeners)
  anyMap,                \* anyMap:       instance -> Set of any-listeners
  producersMap,          \* producersMap: instance -> (event name or anyProducer -> Set of producers)
  canEmitMetaEvents,     \* the module-level reentrancy flag
  isGlobalDebugEnabled,  \* the module-level debug switch
  debug,                 \* instance -> [enabled], this.debug
  ems,                   \* the calls of emit/emitSerial made so far, each with its position
  iters,                 \* the iteration sessions (closures of iterator()) created so far
  nexts,                 \* the calls of next() made so far, each with its position
  onces,                 \* the deferreds returned by once() so far
  mix,                   \* the class a mixin decorates, its objects and the calls on them
  lru,                   \* an LRUCache object (src/src/object.ts)
  mem,                   \* the objects a deepMerge call works on (src/src/object.ts)
  ret                    \* what the last method call threw, "none" if it returned

vars == <<events, anyMap, producersMap, canEmitMetaEvents, isGlobalDebugEnabled,
          debug, ems, iters, nexts, onces, mix, lru, mem, ret>>

----------------------------------------------------------------------------
(* Values *)

Instances == {"E1", "E2"}

listenerAdded == "listenerAdded"
listenerRemoved == "listenerRemoved"
anyProducer == "anyProducer"

\* The event names user code passes: two strings, a number, the two meta symbols,
\* undefined (what a call without argument passes) and null.
StringNames == {"a", "b"}
NumberNames == {"n7"}
MetaNames == {listenerAdded, listenerRemoved}
undefined == "undefined"
null == "null"
EventNames == StringNames \cup NumberNames \cup MetaNames

\* The objects of the class a mixin decorates, and the class before any mixin
Hosts == {"H1", "H2"}
NoMixin ==
  [declared |-> {}, accessor |-> FALSE, methods |-> {},
   own |-> [h \in Hosts |-> "none"], calls |-> <<>>, applied |-> <<>>]

\* LRUCache: the keys and values user code passes, the largest maxSize an
\* LRUCache is built with, and the nodes: head and tail are the two dummy
\* nodes, nil is the null pointer
Keys == {"p", "q", "r"}
Values == {"u", "v"}
MaxCapacity == 2
head == 0
tail == -1
nil == -2
NodeIds == 1..(MaxCapacity + 1)
Node(key, value) == [key |-> key, value |-> value, prev |-> nil, next |-> nil]
NoCache ==
  [built |-> FALSE, maxSize |-> 0, cache |-> [k \in Keys |-> nil],
   nodes |-> [n \in NodeIds \cup {head, tail} |-> Node("0", "0")],
   out |-> undefined, recent |-> <<>>]
ProducerKeys == EventNames \cup {anyProducer}

TypeOf(x) ==
  IF x \in StringNames THEN "string"
  ELSE IF x \in NumberNames THEN "number"
  ELSE IF x \in MetaNames THEN "symbol"
  ELSE IF x = null THEN "object"
  ELSE "undefined"

\* Listener functions of user code, the closures once() creates, and a value
\* that is not a function.
\* Listeners are numbered: 1 and 2 are functions of user code, 10 + o is the
\* closure the o-th call of once() creates, 0 is a value that is not a function.
UserListeners == {1, 2}
notAFunction == 0
OnceListener(o) == 10 + o
IsOnceListener(l) == l > 10
OnceOf(l) == l - 10

Range(s) == {s[k] : k \in 1..Len(s)}

\* Set.prototype.add / delete / has on an insertion-ordered Set
SetAdd(s, x) == IF x \in Range(s) THEN s ELSE Append(s, x)
SetDelete(s, x) == SelectSeq(s, LAMBDA y : y # x)
SetHas(s, x) == x \in Range(s)

\* toArray(x) of ./array for the shapes the emitter's callers pass here: an
\* array stays, a single value is wrapped, and so is the undefined of a call
\* without argument, which the undefined branches of listenerCount and
\* getEventProducers expect to meet as an element.  Arguments are sequences
\* already.
toArray(names) == names

\* deepMerge: the objects of a call.  op is Object.prototype, u an object that
\* has no part in the call, t the target and ta the object it may hold under
\* "a", s1 and s2 the sources with the objects nested in them, n1.. the
\* objects {} the merge creates.  A value is an object, a primitive (v1, v2
\* truthy, zero falsy), an array (arr), a function (fn), undefined or null;
\* absent marks a key an object does not have as own property.
FreshPool == <<"n1", "n2", "n3">>
Objects == {"op", "u", "t", "ta", "s1", "s1i", "s1l", "s2", "s2i"} \cup Range(FreshPool)
ForbiddenKeys == {"__proto__", "constructor", "prototype"}
KeyOrder == <<"a", "__proto__", "constructor", "prototype", "polluted">>
EmptyObject == [proto |-> "op", props |-> [k \in Range(KeyOrder) |-> "absent"]]
ObjectPrototype ==
  [proto |-> null, props |-> [EmptyObject.props EXCEPT !["constructor"] = "fn"]]
NoObjects ==
  [built |-> FALSE, done |-> FALSE, fresh |-> 0, sources |-> <<>>,
   heap |-> [o \in Objects |-> IF o = "op" THEN ObjectPrototype ELSE EmptyObject],
   before |-> [o \in Objects |-> IF o = "op" THEN ObjectPrototype ELSE EmptyObject]]

----------------------------------------------------------------------------
(* The world: every variable as one record, so that a method is a function *)
(* from world to world and nested calls compose.  thrown and logn exist    *)
(* only during a call: the exception in flight, and how many times the     *)
(* logger was called so far in this turn.                                  *)

World ==
  [events |-> events, anyMap |-> anyMap, producersMap |-> producersMap,
   canEmitMetaEvents |-> canEmitMetaEvents,
   isGlobalDebugEnabled |-> isGlobalDebugEnabled, debug |-> debug,
   ems |-> ems, iters |-> iters, nexts |-> nexts, onces |-> onces,
   mix |-> mix, lru |-> lru, mem |-> mem,
   thrown |-> "none", logn |-> 0]

Commit(w) ==
  /\ events' = w.events
  /\ anyMap' = w.anyMap
  /\ producersMap' = w.producersMap
  /\ canEmitMetaEvents' = w.canEmitMetaEvents
  /\ isGlobalDebugEnabled' = w.isGlobalDebugEnabled
  /\ debug' = w.debug
  /\ ems' = w.ems
  /\ iters' = w.iters
  /\ nexts' = w.nexts
  /\ onces' = w.onces
  /\ mix' = w.mix
  /\ lru' = w.lru
  /\ mem' = w.mem
  /\ ret' = w.thrown

\* History: after each step, the listeners of an emission under way that are no
\* longer subscribed are noted in its gone, as <<listener, is any-listener>>.
UnderWay(em) == em.pc \in {"suspended", "dispatching", "awaiting"}

Track(w) ==
  [w EXCEPT !.ems = [e \in 1..Len(w.ems) |->
     LET em == w.ems[e] IN
     IF ~UnderWay(em) THEN em
     ELSE [em EXCEPT !.gone = @
             \cup {<<l, FALSE>> : l \in Range(em.subscribed) \ Range(w.events[em.inst][em.name])}
             \cup {<<l, TRUE>> : l \in Range(em.subscribedAny) \ Range(w.anyMap[em.inst])}]]]

Do(w) == Commit(Track(w))

Throw(w, err) == [w EXCEPT !.thrown = err]


----------------------------------------------------------------------------
(* Validation *)

\* assertEventName: throws unless the name is a string, a symbol or a number
ValidEventName(eventName) == TypeOf(eventName) \in {"string", "symbol", "number"}

\* assertListener: throws unless the listener is a function
ValidListener(listener) == listener # notAFunction

isMetaEvent(eventName) == eventName = listenerAdded \/ eventName = listenerRemoved

\* getListeners / getEventProducers create an empty Set on first access: the maps
\* are total here, an absent entry and an empty Set being indistinguishable.
getListeners(w, i, eventName) == w.events[i][eventName]

ProducerKey(eventName) ==
  IF TypeOf(eventName) \in {"string", "symbol", "number"} THEN eventName ELSE anyProducer

getEventProducers(w, i, eventName) == w.producersMap[i][ProducerKey(eventName)]

----------------------------------------------------------------------------
(* iterator(): the producer and the async iterator of one session *)

\* flush(): resolves the promise the latest suspended next() awaits.  flush holds
\* one resolver only: 0 is the initial no-op, c the resolver of next() call c.
\* Resolving a promise twice does nothing.
Flush(w, p) ==
  LET f == w.iters[p].flush IN
  IF f # 0 /\ w.nexts[f].st = "waiting"
  THEN [w EXCEPT !.nexts[f].st = "woken"]
  ELSE w

\* Mutant of ProducerEnqueue: the item goes to the front of the queue.
ProducerEnqueueFront(w, p, item) ==
  IF ~w.iters[p].hasQueue
  THEN Throw(w, "TypeError")
  ELSE Flush([w EXCEPT !.iters[p].queue = <<item>> \o @], p)

\* producer.enqueue(...item): queue.push(item); flush().  queue!.push throws a
\* TypeError once the queue is undefined.
ProducerEnqueue(w, p, item) ==
  IF ~w.iters[p].hasQueue
  THEN Throw(w, "TypeError")
  ELSE Flush([w EXCEPT !.iters[p].queue = Append(@, item)], p)

\* producer.finish(): isFinished = true; flush()
ProducerFinish(w, p) == Flush([w EXCEPT !.iters[p].isFinished = TRUE], p)

\* Mutant of IteratorNextBody: a finished session reports completion at once,
\* whatever is still queued.
IteratorNextBodyEager(w, c) ==
  LET p == w.nexts[c].p
      it == w.iters[p]
  IN
  IF ~it.hasQueue
  THEN [w EXCEPT !.nexts[c].st = "done"]
  ELSE IF it.isFinished
  THEN [w EXCEPT !.iters[p].hasQueue = FALSE, !.nexts[c].st = "done"]
  ELSE IF it.queue = <<>>
  THEN [w EXCEPT !.iters[p].flush = c, !.nexts[c].st = "waiting"]
  ELSE [w EXCEPT !.iters[p].queue = Tail(@),
                 !.nexts[c].st = "value",
                 !.nexts[c].val = Head(it.queue),
                 !.iters[p].yielded = Append(@, Head(it.queue))]

\* The body of next(), run by call c at its start and again at each wake-up
\* (return this.next()).
IteratorNextBody(w, c) ==
  LET p == w.nexts[c].p
      it == w.iters[p]
  IN
  IF ~it.hasQueue
  THEN [w EXCEPT !.nexts[c].st = "done"]
  ELSE IF it.queue = <<>>
  THEN IF it.isFinished
       THEN [w EXCEPT !.iters[p].hasQueue = FALSE, !.nexts[c].st = "done"]
       ELSE [w EXCEPT !.iters[p].flush = c, !.nexts[c].st = "waiting"]
  ELSE [w EXCEPT !.iters[p].queue = Tail(@),
                 !.nexts[c].st = "value",
                 !.nexts[c].val = Head(it.queue),
                 !.iters[p].yielded = Append(@, Head(it.queue))]

RECURSIVE DeleteProducer(_, _, _, _)
DeleteProducer(w, p, eventNames, k) ==
  IF k > Len(eventNames) THEN w
  ELSE DeleteProducer(
         [w EXCEPT !.producersMap[w.iters[p].inst][ProducerKey(eventNames[k])] = SetDelete(@, p)],
         p, eventNames, k + 1)

\* return(): queue = undefined; delete the producer from the slot of every name;
\* flush()
IteratorReturn(w, p) ==
  Flush(DeleteProducer([w EXCEPT !.iters[p].hasQueue = FALSE, !.iters[p].returned = TRUE],
                       p, w.iters[p].eventNames, 1), p)

RECURSIVE AddProducer(_, _, _, _, _)
AddProducer(w, i, p, eventNames, k) ==
  IF k > Len(eventNames) THEN w
  ELSE AddProducer([w EXCEPT !.producersMap[i][ProducerKey(eventNames[k])] = SetAdd(@, p)],
                   i, p, eventNames, k + 1)

\* iterator(instance, eventNames): a fresh session p, registered under each name.
\* yielded, returned and since are history: what next() handed out, whether
\* return() was called, and how many emit/emitSerial calls had been made when
\* the session was opened.
iterator(w, i, eventNames) ==
  LET p == Len(w.iters) + 1
      it == [inst |-> i, eventNames |-> toArray(eventNames), queue |-> <<>>,
             hasQueue |-> TRUE, isFinished |-> FALSE, flush |-> 0,
             yielded |-> <<>>, returned |-> FALSE, since |-> Len(w.ems)]
  IN AddProducer([w EXCEPT !.iters = Append(@, it)], i, p, toArray(eventNames), 1)

\* enqueueProducers: the producers of the name get the data; the wildcard
\* producers get one item, a promise of [eventName, ...eventData]
RECURSIVE EnqueueAll(_, _, _, _)
EnqueueAll(w, ps, k, item) ==
  IF k > Len(ps) \/ w.thrown # "none" THEN w
  ELSE EnqueueAll(ProducerEnqueue(w, ps[k], item), ps, k + 1, item)

PromiseAll(xs) == [promise |-> xs]

\* Mutant of enqueueProducers: the wildcard producers get the data without the
\* name.
enqueueProducersNoName(w, i, eventName, eventData) ==
  LET w1 == EnqueueAll(w, w.producersMap[i][eventName], 1, eventData)
  IN IF w1.thrown # "none" THEN w1
     ELSE EnqueueAll(w1, w1.producersMap[i][anyProducer], 1, <<PromiseAll(eventData)>>)

\* Mutant of enqueueProducers: the producers of every instance are fed.
enqueueProducersShared(w, i, eventName, eventData) ==
  LET w1 == EnqueueAll(w, w.producersMap["E1"][eventName] \o w.producersMap["E2"][eventName],
                       1, eventData)
  IN IF w1.thrown # "none" THEN w1
     ELSE EnqueueAll(w1, w1.producersMap[i][anyProducer], 1,
                     <<PromiseAll(<<eventName>> \o eventData)>>)

enqueueProducers(w, i, eventName, eventData) ==
  LET w1 == EnqueueAll(w, w.producersMap[i][eventName], 1, eventData)
  IN IF w1.thrown # "none" THEN w1
     ELSE EnqueueAll(w1, w1.producersMap[i][anyProducer], 1,
                     <<PromiseAll(<<eventName>> \o eventData)>>)


----------------------------------------------------------------------------
(* Debug logging *)

\* process.env.DEBUG of the run: not set.
envDEBUG == "unset"

\* static get isDebugEnabled
isDebugEnabled(w) == envDEBUG = "emittery" \/ envDEBUG = "*" \/ w.isGlobalDebugEnabled

\* What the logger callback (user code, or the default console logger) does when
\* it is called: lg.act at the lg.at-th call of the turn, and it just returns at
\* every other call.  "return": returns; "throw": throws; "emit": calls
\* emit(lg.name, ...lg.data) or emitSerial on instance lg.inst and returns.
NoLog == [act |-> "return", at |-> 0, inst |-> "E1", name |-> "a", data |-> <<>>,
          serial |-> FALSE]

\* The record of one emit/emitSerial call.  subscribed, subscribedAny and gone
\* are history: who was subscribed when the call was made, and who of them has
\* been unsubscribed at some moment since, while the call was under way.
Emission(w, i, eventName, eventData, serial, user, statics, staticAny, pc) ==
  [inst |-> i, name |-> eventName, data |-> eventData, serial |-> serial,
   user |-> user, staticListeners |-> statics, staticAnyListeners |-> staticAny,
   pc |-> pc, idx |-> 0, calls |-> <<>>,
   subscribed |-> IF ValidEventName(eventName) THEN w.events[i][eventName] ELSE <<>>,
   subscribedAny |-> w.anyMap[i], gone |-> {}]

\* Mutant of Suspend: the any-listeners are in the snapshot of a meta-event too.
SuspendKeepAny(w, i, eventName, eventData, serial, user) ==
  LET listeners == getListeners(w, i, eventName)
      anyListeners == w.anyMap[i]
      staticListeners == listeners
      staticAnyListeners == anyListeners
  IN IF ~user /\ staticListeners = <<>> /\ staticAnyListeners = <<>> THEN w
     ELSE [w EXCEPT !.ems = Append(@, Emission(w, i, eventName, eventData, serial, user,
                                               staticListeners, staticAnyListeners,
                                               "suspended"))]

\* The snapshot and the first await of emit/emitSerial: the call becomes an
\* emission waiting for its dispatch.  An emitMetaEvent emission nobody listens
\* to is not recorded: its dispatch does nothing and its promise is dropped.
Suspend(w, i, eventName, eventData, serial, user) ==
  LET listeners == getListeners(w, i, eventName)
      anyListeners == w.anyMap[i]
      staticListeners == listeners
      staticAnyListeners == IF ~serial /\ isMetaEvent(eventName) THEN <<>> ELSE anyListeners
  IN IF ~user /\ staticListeners = <<>> /\ staticAnyListeners = <<>> THEN w
     ELSE [w EXCEPT !.ems = Append(@, Emission(w, i, eventName, eventData, serial, user,
                                               staticListeners, staticAnyListeners,
                                               "suspended"))]

\* An emit/emitSerial call that rejected before its first await.
Rejected(w, i, eventName, eventData, serial, user, why) ==
  IF ~user THEN w
  ELSE [w EXCEPT !.ems = Append(@, Emission(w, i, eventName, eventData, serial, user,
                                            <<>>, <<>>, why))]

RECURSIVE EmitCall(_, _, _, _, _, _, _)

\* logIfDebugEnabled(type, eventName, ...eventData)
logIfDebugEnabled(w, i, lg) ==
  IF ~(isDebugEnabled(w) \/ w.debug[i].enabled) THEN w
  ELSE LET w1 == [w EXCEPT !.logn = @ + 1] IN
       IF w1.logn # lg.at \/ lg.act = "return" THEN w1
       ELSE IF lg.act = "throw" THEN Throw(w1, "LoggerError")
       ELSE EmitCall(w1, lg.inst, lg.name, lg.data, lg.serial, TRUE, NoLog)

\* Mutant of EmitCall: emitSerial feeds the sessions as emit does.
EmitCallFeedAll(w, i, eventName, eventData, serial, user, lg) ==
  IF ~ValidEventName(eventName)
  THEN Rejected(w, i, eventName, eventData, serial, user, "TypeError")
  ELSE IF isMetaEvent(eventName) /\ ~w.canEmitMetaEvents
  THEN Rejected(w, i, eventName, eventData, serial, user, "TypeError")
  ELSE LET w1 == logIfDebugEnabled(w, i, lg) IN
       IF w1.thrown # "none"
       THEN Rejected(Throw(w1, "none"), i, eventName, eventData, serial, user, "LoggerError")
       ELSE LET w2 == enqueueProducers(w1, i, eventName, eventData) IN
            IF w2.thrown # "none"
            THEN Rejected(Throw(w2, "none"), i, eventName, eventData, serial, user, "TypeError")
            ELSE Suspend(w2, i, eventName, eventData, serial, user)

\* emit(eventName, ...eventData) and emitSerial(eventName, ...eventData) up to
\* their first await.  Both are async functions: what they throw rejects the
\* returned promise and is never thrown at the caller.
EmitCall(w, i, eventName, eventData, serial, user, lg) ==
  IF ~ValidEventName(eventName)
  THEN Rejected(w, i, eventName, eventData, serial, user, "TypeError")
  ELSE IF isMetaEvent(eventName) /\ ~w.canEmitMetaEvents
  THEN Rejected(w, i, eventName, eventData, serial, user, "TypeError")
  ELSE LET w1 == logIfDebugEnabled(w, i, lg) IN
       IF w1.thrown # "none"
       THEN Rejected(Throw(w1, "none"), i, eventName, eventData, serial, user, "LoggerError")
       ELSE LET w2 == IF serial THEN w1 ELSE enqueueProducers(w1, i, eventName, eventData) IN
            IF w2.thrown # "none"
            THEN Rejected(Throw(w2, "none"), i, eventName, eventData, serial, user, "TypeError")
            ELSE Suspend(w2, i, eventName, eventData, serial, user)

\* Mutant of emitMetaEvent: without the finally, the flag stays as the emit
\* left it.
emitMetaEventNoFinally(w, i, eventName, eventData, lg) ==
  IF isMetaEvent(eventName)
  THEN EmitCall([w EXCEPT !.canEmitMetaEvents = TRUE],
                i, eventName, eventData, FALSE, FALSE, lg)
  ELSE w

\* emitMetaEvent(emitter, eventName, ...eventData): the flag is raised around
\* the synchronous part of emit and lowered in the finally.
emitMetaEvent(w, i, eventName, eventData, lg) ==
  IF isMetaEvent(eventName)
  THEN LET w1 == EmitCall([w EXCEPT !.canEmitMetaEvents = TRUE],
                          i, eventName, eventData, FALSE, FALSE, lg)
       IN [w1 EXCEPT !.canEmitMetaEvents = FALSE]
  ELSE w

MetaData(eventName, listener) == <<[eventName |-> eventName, listener |-> listener]>>

----------------------------------------------------------------------------
(* Subscription management *)

\* Mutant of OnLoop: listenerAdded is emitted for meta names too.
RECURSIVE OnLoopAll(_, _, _, _, _, _)
OnLoopAll(w, i, eventNames, k, listener, lg) ==
  IF k > Len(eventNames) THEN w
  ELSE LET eventName == eventNames[k] IN
       IF ~ValidEventName(eventName) THEN Throw(w, "TypeError")
       ELSE LET w1 == [w EXCEPT !.events[i][eventName] = SetAdd(@, listener)]
                w2 == logIfDebugEnabled(w1, i, lg)
            IN IF w2.thrown # "none" THEN w2
               ELSE OnLoopAll(emitMetaEvent(w2, i, listenerAdded,
                                            MetaData(eventName, listener), lg),
                              i, eventNames, k + 1, listener, lg)

\* Mutant of OnLoop: an invalid name is passed over and the loop goes on.
RECURSIVE OnLoopSkip(_, _, _, _, _, _)
OnLoopSkip(w, i, eventNames, k, listener, lg) ==
  IF k > Len(eventNames) THEN w
  ELSE LET eventName == eventNames[k] IN
       IF ~ValidEventName(eventName)
       THEN OnLoopSkip(w, i, eventNames, k + 1, listener, lg)
       ELSE LET w1 == [w EXCEPT !.events[i][eventName] = SetAdd(@, listener)]
                w2 == logIfDebugEnabled(w1, i, lg)
            IN IF w2.thrown # "none" THEN w2
               ELSE OnLoopSkip(IF ~isMetaEvent(eventName)
                               THEN emitMetaEvent(w2, i, listenerAdded,
                                                  MetaData(eventName, listener), lg)
                               ELSE w2,
                               i, eventNames, k + 1, listener, lg)

RECURSIVE OnLoop(_, _, _, _, _, _)
OnLoop(w, i, eventNames, k, listener, lg) ==
  IF k > Len(eventNames) THEN w
  ELSE LET eventName == eventNames[k] IN
       IF ~ValidEventName(eventName) THEN Throw(w, "TypeError")
       ELSE LET w1 == [w EXCEPT !.events[i][eventName] = SetAdd(@, listener)]
                w2 == logIfDebugEnabled(w1, i, lg)
            IN IF w2.thrown # "none" THEN w2
               ELSE OnLoop(IF ~isMetaEvent(eventName)
                           THEN emitMetaEvent(w2, i, listenerAdded,
                                              MetaData(eventName, listener), lg)
                           ELSE w2,
                           i, eventNames, k + 1, listener, lg)

\* on(eventNames, listener)
EmitterOn(w, i, eventNames, listener, lg) ==
  IF ~ValidListener(listener) THEN Throw(w, "TypeError")
  ELSE OnLoop(w, i, toArray(eventNames), 1, listener, lg)

\* Mutant of OffLoop: removing a listener that is not subscribed is an error.
RECURSIVE OffLoopStrict(_, _, _, _, _, _)
OffLoopStrict(w, i, eventNames, k, listener, lg) ==
  IF k > Len(eventNames) THEN w
  ELSE LET eventName == eventNames[k] IN
       IF ~ValidEventName(eventName) THEN Throw(w, "TypeError")
       ELSE IF ~SetHas(w.events[i][eventName], listener) THEN Throw(w, "Error")
       ELSE LET w1 == [w EXCEPT !.events[i][eventName] = SetDelete(@, listener)]
                w2 == logIfDebugEnabled(w1, i, lg)
            IN IF w2.thrown # "none" THEN w2
               ELSE OffLoopStrict(IF ~isMetaEvent(eventName)
                                  THEN emitMetaEvent(w2, i, listenerRemoved,
                                                     MetaData(eventName, listener), lg)
                                  ELSE w2,
                                  i, eventNames, k + 1, listener, lg)

RECURSIVE OffLoop(_, _, _, _, _, _)
OffLoop(w, i, eventNames, k, listener, lg) ==
  IF k > Len(eventNames) THEN w
  ELSE LET eventName == eventNames[k] IN
       IF ~ValidEventName(eventName) THEN Throw(w, "TypeError")
       ELSE LET w1 == [w EXCEPT !.events[i][eventName] = SetDelete(@, listener)]
                w2 == logIfDebugEnabled(w1, i, lg)
            IN IF w2.thrown # "none" THEN w2
               ELSE OffLoop(IF ~isMetaEvent(eventName)
                            THEN emitMetaEvent(w2, i, listenerRemoved,
                                               MetaData(eventName, listener), lg)
                            ELSE w2,
                            i, eventNames, k + 1, listener, lg)

\* off(eventNames, listener)
EmitterOff(w, i, eventNames, listener, lg) ==
  IF ~ValidListener(listener) THEN Throw(w, "TypeError")
  ELSE OffLoop(w, i, toArray(eventNames), 1, listener, lg)

\* onAny(listener)
EmitterOnAny(w, i, listener, lg) ==
  IF ~ValidListener(listener) THEN Throw(w, "TypeError")
  ELSE LET w1 == logIfDebugEnabled(w, i, lg) IN
       IF w1.thrown # "none" THEN w1
       ELSE emitMetaEvent([w1 EXCEPT !.anyMap[i] = SetAdd(@, listener)],
                          i, listenerAdded, MetaData(undefined, listener), lg)

\* offAny(listener)
EmitterOffAny(w, i, listener, lg) ==
  IF ~ValidListener(listener) THEN Throw(w, "TypeError")
  ELSE LET w1 == logIfDebugEnabled(w, i, lg) IN
       IF w1.thrown # "none" THEN w1
       ELSE LET w2 == emitMetaEvent(w1, i, listenerRemoved,
                                    MetaData(undefined, listener), lg)
            IN [w2 EXCEPT !.anyMap[i] = SetDelete(@, listener)]


\* once(eventNames): the o-th call creates the closure OnceListener(o) and
\* subscribes it inside the promise executor; what the executor throws rejects
\* the promise.  invoked counts the calls of the closure (history).
EmitterOnce(w, i, eventNames, lg) ==
  LET o == Len(w.onces) + 1
      w1 == EmitterOn(w, i, eventNames, OnceListener(o), lg)
      d == [inst |-> i, eventNames |-> toArray(eventNames),
            st |-> IF w1.thrown = "none" THEN "pending" ELSE "rejected",
            val |-> undefined, invoked |-> 0]
  IN [Throw(w1, "none") EXCEPT !.onces = Append(@, d)]

\* Mutant of OnceBody: the closure resolves without unsubscribing itself.
OnceBodyKeep(w, o, args, lg) ==
  LET d == w.onces[o]
      w1 == [w EXCEPT !.onces[o].invoked = @ + 1]
  IN IF d.st = "pending"
     THEN [w1 EXCEPT !.onces[o].st = "resolved",
                     !.onces[o].val = IF args = <<>> THEN undefined ELSE args[1]]
     ELSE w1

\* The closure of once: (data) => { off_(); resolve(data) }
OnceBody(w, o, args, lg) ==
  LET d == w.onces[o]
      w1 == EmitterOff([w EXCEPT !.onces[o].invoked = @ + 1],
                       d.inst, d.eventNames, OnceListener(o), lg)
  IN IF w1.thrown # "none" THEN w1
     ELSE IF d.st = "pending"
     THEN [w1 EXCEPT !.onces[o].st = "resolved",
                     !.onces[o].val = IF args = <<>> THEN undefined ELSE args[1]]
     ELSE w1

\* events(eventNames)
RECURSIVE AllValid(_, _)
AllValid(eventNames, k) ==
  k > Len(eventNames) \/ (ValidEventName(eventNames[k]) /\ AllValid(eventNames, k + 1))

EmitterEvents(w, i, eventNames) ==
  IF ~AllValid(toArray(eventNames), 1) THEN Throw(w, "TypeError")
  ELSE iterator(w, i, toArray(eventNames))

\* anyEvent(): iterator(this), whose eventNames is toArray(undefined)
EmitterAnyEvent(w, i) == iterator(w, i, <<undefined>>)

RECURSIVE FinishAll(_, _, _)
FinishAll(w, ps, k) ==
  IF k > Len(ps) THEN w ELSE FinishAll(ProducerFinish(w, ps[k]), ps, k + 1)

RECURSIVE FinishSlots(_, _, _)
FinishSlots(w, i, keys) ==
  IF keys = {} THEN w
  ELSE LET key == CHOOSE x \in keys : TRUE
           w1 == FinishAll(w, w.producersMap[i][key], 1)
       IN FinishSlots([w1 EXCEPT !.producersMap[i][key] = <<>>], i, keys \ {key})

\* Mutant of ClearLoop: a clear of one name clears what a clear of everything
\* clears.
RECURSIVE ClearLoopWide(_, _, _, _, _)
ClearLoopWide(w, i, eventNames, k, lg) ==
  IF k > Len(eventNames) THEN w
  ELSE LET w1 == logIfDebugEnabled(w, i, lg)
       IN IF w1.thrown # "none" THEN w1
          ELSE ClearLoopWide(FinishSlots([w1 EXCEPT !.anyMap[i] = <<>>,
                                                    !.events[i] = [n \in EventNames |-> <<>>]],
                                         i, ProducerKeys),
                             i, eventNames, k + 1, lg)

RECURSIVE ClearLoop(_, _, _, _, _)
ClearLoop(w, i, eventNames, k, lg) ==
  IF k > Len(eventNames) THEN w
  ELSE LET eventName == eventNames[k]
           w1 == logIfDebugEnabled(w, i, lg)
       IN IF w1.thrown # "none" THEN w1
          ELSE IF TypeOf(eventName) \in {"string", "symbol", "number"}
          THEN LET w2 == FinishAll([w1 EXCEPT !.events[i][eventName] = <<>>],
                                   getEventProducers(w1, i, eventName), 1)
               IN ClearLoop([w2 EXCEPT !.producersMap[i][eventName] = <<>>],
                            i, eventNames, k + 1, lg)
          ELSE ClearLoop(FinishSlots([w1 EXCEPT !.anyMap[i] = <<>>,
                                                !.events[i] = [n \in EventNames |-> <<>>]],
                                     i, ProducerKeys),
                         i, eventNames, k + 1, lg)

\* clearListeners(eventNames); a call without argument passes <<undefined>>
EmitterClearListeners(w, i, eventNames, lg) == ClearLoop(w, i, eventNames, 1, lg)

RECURSIVE SumSizes(_, _)
SumSizes(f, keys) ==
  IF keys = {} THEN 0
  ELSE LET key == CHOOSE x \in keys : TRUE IN Len(f[key]) + SumSizes(f, keys \ {key})

\* listenerCount(eventNames): the count, or -1 for the TypeError of assertEventName
RECURSIVE CountLoop(_, _, _, _, _)
CountLoop(w, i, eventNames, k, count) ==
  IF k > Len(eventNames) THEN count
  ELSE LET eventName == eventNames[k] IN
       IF TypeOf(eventName) = "string"
       THEN CountLoop(w, i, eventNames, k + 1,
                      count + Len(w.anyMap[i]) + Len(getListeners(w, i, eventName))
                            + Len(getEventProducers(w, i, eventName))
                            + Len(getEventProducers(w, i, undefined)))
       ELSE IF TypeOf(eventName) # "undefined" /\ ~ValidEventName(eventName)
       THEN -1
       ELSE CountLoop(w, i, eventNames, k + 1,
                      count + Len(w.anyMap[i]) + SumSizes(w.events[i], EventNames)
                            + SumSizes(w.producersMap[i], ProducerKeys))

listenerCount(w, i, eventNames) == CountLoop(w, i, toArray(eventNames), 1, 0)


----------------------------------------------------------------------------
(* Dispatch: what emit and emitSerial do after await resolvedPromise *)

\* Mutant of Invoke: an any-listener is called like a listener, without the name.
InvokeWithoutName(w, e, listener, isAny, out, lg) ==
  LET em == w.ems[e]
      st == IF IsOnceListener(listener) THEN "ok" ELSE out
  IN [w EXCEPT !.ems[e].calls = Append(@, [listener |-> listener, any |-> isAny,
                                           args |-> em.data, st |-> st])]

\* listener(...eventData) or listener(eventName, ...eventData).  A function of
\* user code returns ("ok"), throws ("failed") or returns a promise that is not
\* settled yet ("pending"): out.  The closure of once() runs its body.
Invoke(w, e, listener, isAny, out, lg) ==
  LET em == w.ems[e]
      args == IF isAny THEN <<em.name>> \o em.data ELSE em.data
      w1 == IF IsOnceListener(listener) THEN OnceBody(w, OnceOf(listener), args, lg) ELSE w
      st == IF IsOnceListener(listener)
            THEN (IF w1.thrown = "none" THEN "ok" ELSE "failed")
            ELSE out
  IN [Throw(w1, "none") EXCEPT
        !.ems[e].calls = Append(@, [listener |-> listener, any |-> isAny,
                                    args |-> args, st |-> st])]

\* Mutant of StillLive: the snapshot is dispatched without the has() check.
AlwaysLive(w, e, listener, isAny) == TRUE

\* if (listeners.has(listener)) / if (anyListeners.has(listener)): listeners and
\* anyListeners are the live Sets of the instance
StillLive(w, e, listener, isAny) ==
  IF isAny THEN SetHas(w.anyMap[w.ems[e].inst], listener)
  ELSE SetHas(getListeners(w, w.ems[e].inst, w.ems[e].name), listener)

\* Mutant of Snapshot: the dispatch walks the live Sets.
SnapshotLive(em) == events[em.inst][em.name] \o anyMap[em.inst]

\* [...listeners] and [...anyListeners], copied at the call
Snapshot(em) == em.staticListeners \o em.staticAnyListeners

\* Mutant of StepParallel: a failure ends the turn, the wrappers after it are
\* not run.
StepParallelAbort(w, e, out, lg) ==
  LET em == w.ems[e]
      k == em.idx + 1
      isAny == k > Len(em.staticListeners)
      failed == \E j \in 1..Len(em.calls) : em.calls[j].st = "failed"
  IN IF k > Len(Snapshot(em))
     THEN [w EXCEPT !.ems[e].pc = "awaiting"]
     ELSE LET w1 == IF ~failed /\ StillLive(w, e, Snapshot(em)[k], isAny)
                    THEN Invoke(w, e, Snapshot(em)[k], isAny, out, lg)
                    ELSE w
          IN [w1 EXCEPT !.ems[e].idx = k,
                        !.ems[e].pc = IF k = Len(Snapshot(em)) THEN "awaiting"
                                      ELSE "dispatching"]

\* emit: the two map() calls run every wrapper in the same synchronous turn.
\* One step is one wrapper; the turn ends at the joint await of Promise.all.
StepParallel(w, e, out, lg) ==
  LET em == w.ems[e]
      k == em.idx + 1
      isAny == k > Len(em.staticListeners)
  IN IF k > Len(Snapshot(em))
     THEN [w EXCEPT !.ems[e].pc = "awaiting"]
     ELSE LET w1 == IF StillLive(w, e, Snapshot(em)[k], isAny)
                    THEN Invoke(w, e, Snapshot(em)[k], isAny, out, lg)
                    ELSE w
          IN [w1 EXCEPT !.ems[e].idx = k,
                        !.ems[e].pc = IF k = Len(Snapshot(em)) THEN "awaiting"
                                      ELSE "dispatching"]

\* emitSerial: the two for loops.  A listener no longer in the live Set is
\* passed over in the same turn; the first live one is called and awaited.
RECURSIVE StepSerial(_, _, _, _)
StepSerial(w, e, out, lg) ==
  LET em == w.ems[e]
      k == em.idx + 1
      isAny == k > Len(em.staticListeners)
  IN IF k > Len(Snapshot(em))
     THEN [w EXCEPT !.ems[e].pc = "fulfilled"]
     ELSE IF StillLive(w, e, Snapshot(em)[k], isAny)
     THEN [Invoke(w, e, Snapshot(em)[k], isAny, out, lg) EXCEPT
             !.ems[e].idx = k, !.ems[e].pc = "awaiting"]
     ELSE StepSerial([w EXCEPT !.ems[e].idx = k], e, out, lg)

\* A synchronous turn of emit's dispatch is under way.
InSyncTurn == \E e \in 1..Len(ems) : ems[e].pc = "dispatching"

\* await resolvedPromise resumes the calls in the order they were made.
FirstSuspended(e) ==
  /\ ems[e].pc = "suspended"
  /\ \A e2 \in 1..(e - 1) : ems[e2].pc # "suspended"

LastCall(em) == em.calls[Len(em.calls)]

\* Mutant of JoinResult: settles with the first wrapper that settles.
JoinFirst(em) ==
  IF \E k \in 1..Len(em.calls) : em.calls[k].st = "failed" THEN "rejected"
  ELSE IF em.calls = <<>> \/ \E k \in 1..Len(em.calls) : em.calls[k].st = "ok" THEN "fulfilled"
  ELSE "awaiting"

\* Promise.all over the wrappers: rejected as soon as one is, fulfilled once all are
JoinResult(em) ==
  IF \E k \in 1..Len(em.calls) : em.calls[k].st = "failed" THEN "rejected"
  ELSE IF \A k \in 1..Len(em.calls) : em.calls[k].st = "ok" THEN "fulfilled"
  ELSE "awaiting"


----------------------------------------------------------------------------
(* Actions: the method calls of user code *)

On(i, eventNames, listener, lg) == Do(EmitterOn(World, i, eventNames, listener, lg))

Off(i, eventNames, listener, lg) == Do(EmitterOff(World, i, eventNames, listener, lg))

OnAny(i, listener, lg) == Do(EmitterOnAny(World, i, listener, lg))

OffAny(i, listener, lg) == Do(EmitterOffAny(World, i, listener, lg))

Once(i, eventNames, lg) == Do(EmitterOnce(World, i, eventNames, lg))

ClearListeners(i, eventNames, lg) ==
  Do(EmitterClearListeners(World, i, eventNames, lg))

\* Mutant of Emit: the first listener is called in the turn of the call.
EmitInTurn(i, eventName, eventData, lg) ==
  Do(StepParallel(EmitCall(World, i, eventName, eventData, FALSE, TRUE, lg),
                  Len(ems) + 1, "ok", lg))

Emit(i, eventName, eventData, lg) ==
  Do(EmitCall(World, i, eventName, eventData, FALSE, TRUE, lg))

EmitSerial(i, eventName, eventData, lg) ==
  Do(EmitCall(World, i, eventName, eventData, TRUE, TRUE, lg))

Events(i, eventNames) == Do(EmitterEvents(World, i, eventNames))

AnyEvent(i) == Do(EmitterAnyEvent(World, i))

\* Emitter.isDebugEnabled = newValue
SetIsDebugEnabled(newValue) ==
  Do([World EXCEPT !.isGlobalDebugEnabled = newValue])

\* next() on session p: a new call c.  late is history: return() had been
\* called before this call was made.
IterNext(p) ==
  /\ p \in 1..Len(iters)
  /\ Do(IteratorNextBody([World EXCEPT !.nexts = Append(@, [p |-> p, st |-> "start", val |-> <<>>,
                                                           late |-> iters[p].returned])],
                         Len(nexts) + 1))

\* return() on session p
Return(p) ==
  /\ p \in 1..Len(iters)
  /\ Do(IteratorReturn(World, p))

----------------------------------------------------------------------------
(* Actions: what runs after an await *)

\* The continuation of await resolvedPromise, first turn of the dispatch
Dispatch(e, out, lg) ==
  /\ e \in 1..Len(ems)
  /\ ~InSyncTurn
  /\ FirstSuspended(e)
  /\ Do(IF ems[e].serial THEN StepSerial(World, e, out, lg)
                         ELSE StepParallel(World, e, out, lg))

\* emit: the next wrapper of the same turn
DispatchNext(e, out, lg) ==
  /\ e \in 1..Len(ems)
  /\ ems[e].pc = "dispatching"
  /\ Do(StepParallel(World, e, out, lg))

\* Mutant of Resume: the loop goes on after a listener that failed.
ResumeAfterFailure(e, out, lg) ==
  /\ e \in 1..Len(ems)
  /\ ~InSyncTurn
  /\ ems[e].serial /\ ems[e].pc = "awaiting"
  /\ LastCall(ems[e]).st \in {"ok", "failed"}
  /\ Do(StepSerial(World, e, out, lg))

\* Mutant of Resume: the loop goes on without awaiting the listener.
ResumeEarly(e, out, lg) ==
  /\ e \in 1..Len(ems)
  /\ ~InSyncTurn
  /\ ems[e].serial /\ ems[e].pc = "awaiting"
  /\ LastCall(ems[e]).st # "failed"
  /\ Do(StepSerial(World, e, out, lg))

\* emitSerial: the awaited listener has returned, the loop goes on
Resume(e, out, lg) ==
  /\ e \in 1..Len(ems)
  /\ ~InSyncTurn
  /\ ems[e].serial /\ ems[e].pc = "awaiting"
  /\ LastCall(ems[e]).st = "ok"
  /\ Do(StepSerial(World, e, out, lg))

\* The promise a listener returned settles
Settle(e, k, res) ==
  /\ e \in 1..Len(ems)
  /\ k \in 1..Len(ems[e].calls)
  /\ ~InSyncTurn
  /\ ems[e].calls[k].st = "pending"
  /\ Do([World EXCEPT !.ems[e].calls[k].st = res])

\* The promise of emit/emitSerial settles: emit at the outcome of Promise.all,
\* emitSerial when the awaited listener failed
Join(e) ==
  /\ e \in 1..Len(ems)
  /\ ~InSyncTurn
  /\ ems[e].pc = "awaiting"
  /\ IF ems[e].serial
     THEN LastCall(ems[e]).st = "failed" /\ Do([World EXCEPT !.ems[e].pc = "rejected"])
     ELSE JoinResult(ems[e]) # "awaiting"
          /\ Do([World EXCEPT !.ems[e].pc = JoinResult(ems[e])])

\* The continuation of a next() whose promise flush() resolved: return this.next()
Wake(c) ==
  /\ c \in 1..Len(nexts)
  /\ ~InSyncTurn
  /\ nexts[c].st = "woken"
  /\ Do(IteratorNextBody(World, c))

----------------------------------------------------------------------------
(* The state after the module is loaded and the instances are constructed *)

Init ==
  /\ events = [i \in Instances |-> [n \in EventNames |-> <<>>]]
  /\ anyMap = [i \in Instances |-> <<>>]
  /\ producersMap = [i \in Instances |-> [k \in ProducerKeys |-> <<>>]]
  /\ canEmitMetaEvents = FALSE
  /\ isGlobalDebugEnabled = FALSE
  /\ debug = [i \in Instances |-> [enabled |-> FALSE]]
  /\ ems = <<>>
  /\ iters = <<>>
  /\ nexts = <<>>
  /\ onces = <<>>
  /\ mix = NoMixin
  /\ lru = NoCache
  /\ mem = NoObjects
  /\ ret = "none"

\* The payload of the k-th emit call of a behaviour
Payload(k) == IF k % 2 = 1 THEN <<"x", "y">> ELSE <<"z">>

Outcomes == {"ok", "failed", "pending"}

----------------------------------------------------------------------------
(* SpecEmit: listeners and any-listeners of instance E1 come and go while  *)
(* emit calls to "a" are dispatched; every listener returns normally.      *)

\* How many emit/emitSerial calls a behaviour of SpecEmit, SpecLive, SpecJoin
\* and SpecSerial makes
MaxEmits == 1

Churn ==
  \/ \E l \in UserListeners : On("E1", <<"a">>, l, NoLog)
  \/ On("E1", <<"b">>, 2, NoLog)
  \/ Off("E1", <<"a">>, 2, NoLog)
  \/ OnAny("E1", 1, NoLog)
  \/ OffAny("E1", 1, NoLog)
  \/ \E n \in {"a", undefined} : ClearListeners("E1", <<n>>, NoLog)

NextEmit ==
  \/ Churn
  \/ Len(ems) < MaxEmits /\ Emit("E1", "a", Payload(Len(ems) + 1), NoLog)
  \/ \E e \in 1..Len(ems) : Dispatch(e, "ok", NoLog)
  \/ \E e \in 1..Len(ems) : DispatchNext(e, "ok", NoLog)
  \/ \E e \in 1..Len(ems) : Join(e)

SpecEmit == Init /\ [][NextEmit]_vars

CallsOf(em, listener, isAny) ==
  {k \in 1..Len(em.calls) : em.calls[k].listener = listener /\ em.calls[k].any = isAny}

\* C1: an emit(name, d1..dn) that ran to completion has invoked every listener
\* that was subscribed to name at the call and was not removed since exactly
\* once with (d1..dn), every any-listener likewise exactly once with
\* (name, d1..dn), and nobody else (so no listener subscribed to other names only).
C1_EmitDelivers ==
  \A e \in 1..Len(ems) :
    LET em == ems[e] IN
    (em.user /\ ~em.serial /\ em.pc = "fulfilled") =>
      /\ \A l \in Range(em.subscribed) :
            <<l, FALSE>> \notin em.gone => Cardinality(CallsOf(em, l, FALSE)) = 1
      /\ \A l \in Range(em.subscribedAny) :
            <<l, TRUE>> \notin em.gone => Cardinality(CallsOf(em, l, TRUE)) = 1
      /\ \A k \in 1..Len(em.calls) :
            IF em.calls[k].any
            THEN /\ em.calls[k].listener \in Range(em.subscribedAny)
                 /\ em.calls[k].args = <<em.name>> \o em.data
            ELSE /\ em.calls[k].listener \in Range(em.subscribed)
                 /\ em.calls[k].args = em.data

\* An emit to "a" completed with a listener and an any-listener invoked, while
\* listener 2 was subscribed to "b" only.
C1_Witness ==
  \E e \in 1..Len(ems) :
    /\ ems[e].user /\ ~ems[e].serial /\ ems[e].pc = "fulfilled"
    /\ ems[e].gone = {}
    /\ CallsOf(ems[e], 1, FALSE) # {} /\ CallsOf(ems[e], 1, TRUE) # {}
    /\ 2 \notin Range(ems[e].subscribed)
    /\ 2 \in Range(events["E1"]["b"])

----------------------------------------------------------------------------
(* SpecLive: emit and emitSerial calls to "a" while listeners are removed  *)
(* by off, offAny and clearListeners, and subscribed again.                *)

NextLive ==
  \/ \E l \in UserListeners : On("E1", <<"a">>, l, NoLog)
  \/ Off("E1", <<"a">>, 2, NoLog)
  \/ OnAny("E1", 1, NoLog)
  \/ OffAny("E1", 1, NoLog)
  \/ ClearListeners("E1", <<undefined>>, NoLog)
  \/ Len(ems) < MaxEmits /\ Emit("E1", "a", Payload(Len(ems) + 1), NoLog)
  \/ Len(ems) < MaxEmits /\ EmitSerial("E1", "a", Payload(Len(ems) + 1), NoLog)
  \/ \E e \in 1..Len(ems) : Dispatch(e, "ok", NoLog)
  \/ \E e \in 1..Len(ems) : DispatchNext(e, "ok", NoLog)
  \/ \E e \in 1..Len(ems) : Resume(e, "ok", NoLog)
  \/ \E e \in 1..Len(ems) : Join(e)

SpecLive == Init /\ [][NextLive]_vars

----------------------------------------------------------------------------
(* SpecJoin: emit calls to "a" whose listeners return, throw, or return a  *)
(* promise that settles later either way.                                  *)

NextJoin ==
  \/ \E l \in UserListeners : On("E1", <<"a">>, l, NoLog)
  \/ Off("E1", <<"a">>, 2, NoLog)
  \/ OnAny("E1", 1, NoLog)
  \/ Len(ems) < MaxEmits /\ Emit("E1", "a", Payload(Len(ems) + 1), NoLog)
  \/ \E e \in 1..Len(ems), out \in Outcomes : Dispatch(e, out, NoLog)
  \/ \E e \in 1..Len(ems), out \in Outcomes : DispatchNext(e, out, NoLog)
  \/ \E e \in 1..Len(ems), k \in 1..3, res \in {"ok", "failed"} : Settle(e, k, res)
  \/ \E e \in 1..Len(ems) : Join(e)

SpecJoin == Init /\ [][NextJoin]_vars

Settled(em) == em.pc \in {"fulfilled", "rejected"}

\* C2 as claimed: once the promise of emit has settled, every listener it invoked
\* has settled, successfully or not.
C2_SettlesAfterAll ==
  \A e \in 1..Len(ems) :
    (ems[e].user /\ ~ems[e].serial /\ Settled(ems[e])) =>
      \A k \in 1..Len(ems[e].calls) : ems[e].calls[k].st # "pending"

\* C2 as amended: the promise of emit fulfils only after every listener it
\* invoked has settled successfully, and rejects only after one has failed
\* (others may still be pending then).
C2_FulfilsAfterAll ==
  \A e \in 1..Len(ems) :
    (ems[e].user /\ ~ems[e].serial) =>
      /\ ems[e].pc = "fulfilled" => \A k \in 1..Len(ems[e].calls) : ems[e].calls[k].st = "ok"
      /\ ems[e].pc = "rejected" => \E k \in 1..Len(ems[e].calls) : ems[e].calls[k].st = "failed"

\* An emit fulfilled after two listeners and an any-listener were invoked.
C2_Witness ==
  \E e \in 1..Len(ems) :
    /\ ems[e].user /\ ~ems[e].serial /\ ems[e].pc = "fulfilled"
    /\ Len(ems[e].calls) = 3

----------------------------------------------------------------------------
(* SpecSerial: emitSerial calls to "a" while listeners come and go; the    *)
(* listeners return, throw, or return a promise that settles later.        *)

NextSerial ==
  \/ \E l \in UserListeners : On("E1", <<"a">>, l, NoLog)
  \/ Off("E1", <<"a">>, 2, NoLog)
  \/ OnAny("E1", 1, NoLog)
  \/ ClearListeners("E1", <<undefined>>, NoLog)
  \/ Len(ems) < MaxEmits /\ EmitSerial("E1", "a", Payload(Len(ems) + 1), NoLog)
  \/ \E e \in 1..Len(ems), out \in Outcomes : Dispatch(e, out, NoLog)
  \/ \E e \in 1..Len(ems), out \in Outcomes : Resume(e, out, NoLog)
  \/ \E e \in 1..Len(ems), k \in 1..3, res \in {"ok", "failed"} : Settle(e, k, res)
  \/ \E e \in 1..Len(ems) : Join(e)

SpecSerial == Init /\ [][NextSerial]_vars

IndexOf(s, x) == CHOOSE k \in 1..Len(s) : s[k] = x

\* The place of a call in the order of subscription: the listeners of the name
\* in the order they were subscribed, then the any-listeners in theirs.
PlaceOf(em, c) ==
  IF c.any THEN Len(em.subscribed) + IndexOf(em.subscribedAny, c.listener)
  ELSE IndexOf(em.subscribed, c.listener)

\* C3: emitSerial invokes one listener at a time: when an invocation begins every
\* earlier one has settled, and the invocations follow the order of subscription,
\* the listeners of the name first, the any-listeners after them.
C3_SerialOrder ==
  \A e \in 1..Len(ems) :
    LET em == ems[e] IN
    (em.user /\ em.serial) =>
      /\ \A k \in 1..Len(em.calls) :
            em.calls[k].listener \in
              Range(IF em.calls[k].any THEN em.subscribedAny ELSE em.subscribed)
      /\ \A k \in 1..(Len(em.calls) - 1) :
            /\ em.calls[k].st = "ok"
            /\ PlaceOf(em, em.calls[k]) < PlaceOf(em, em.calls[k + 1])

\* An emitSerial completed after two listeners and an any-listener were invoked.
C3_Witness ==
  \E e \in 1..Len(ems) :
    /\ ems[e].user /\ ems[e].serial /\ ems[e].pc = "fulfilled"
    /\ Len(ems[e].calls) = 3 /\ ems[e].calls[3].any

----------------------------------------------------------------------------
(* SpecMeta: debug logging can be switched on, listener 1 listens to       *)
(* listenerAdded on E1, listener 2 is subscribed to and unsubscribed from  *)
(* "a", and user code calls emit and emitSerial with a meta name: at top   *)
(* level, while a dispatch is under way, and from the logger callback.     *)

\* How many emit/emitSerial calls, of user code and of emitMetaEvent, a
\* behaviour of SpecMeta records
MaxMetaEmits == 2

\* What user code passes for a forged meta-event
ForgedData == MetaData("b", 2)

\* The logger callbacks: one that only logs, and those that emit a forged
\* listenerAdded at their first or second call of a turn
Loggers ==
  {NoLog} \cup
  {[act |-> "emit", at |-> k, inst |-> i, name |-> listenerAdded,
    data |-> ForgedData, serial |-> s] : k \in 1..2, i \in Instances, s \in BOOLEAN}

NextMeta ==
  \/ \E v \in BOOLEAN : SetIsDebugEnabled(v)
  \/ On("E1", <<listenerAdded>>, 1, NoLog)
  \/ \E lg \in Loggers : Len(ems) < MaxMetaEmits /\ On("E1", <<"a">>, 2, lg)
  \/ \E lg \in Loggers : Len(ems) < MaxMetaEmits /\ Off("E1", <<"a">>, 2, lg)
  \/ \E n \in MetaNames : Len(ems) < MaxMetaEmits /\ Emit("E1", n, ForgedData, NoLog)
  \/ \E n \in MetaNames : Len(ems) < MaxMetaEmits /\ EmitSerial("E1", n, ForgedData, NoLog)
  \/ \E e \in 1..Len(ems) : Dispatch(e, "ok", NoLog)
  \/ \E e \in 1..Len(ems) : Resume(e, "ok", NoLog)
  \/ \E e \in 1..Len(ems) : Join(e)

SpecMeta == Init /\ [][NextMeta]_vars

\* C5: every emit or emitSerial call of user code with the name listenerAdded
\* or listenerRemoved is rejected with a TypeError and invokes no listener,
\* wherever the call is made from (top level, a listener, the logger callback).
C5_MetaNeverUserEmitted ==
  \A e \in 1..Len(ems) :
    ems[e].user /\ isMetaEvent(ems[e].name)
      => ems[e].pc = "TypeError" /\ ems[e].calls = <<>>

----------------------------------------------------------------------------
(* SpecCount: listeners are subscribed to and removed from the names "a",  *)
(* "b" and the number name n7 of E1, and an any-listener comes and goes;   *)
(* listenerCount is read in every state.                                   *)

CountNames == StringNames \cup NumberNames

NextCount ==
  \/ \E n \in CountNames, l \in UserListeners : On("E1", <<n>>, l, NoLog)
  \/ \E n \in CountNames, l \in UserListeners : Off("E1", <<n>>, l, NoLog)
  \/ OnAny("E1", 1, NoLog)
  \/ OffAny("E1", 1, NoLog)
  \/ \E n \in CountNames \cup {undefined} : ClearListeners("E1", <<n>>, NoLog)

SpecCount == Init /\ [][NextCount]_vars

NoProducers(i) == \A k \in ProducerKeys : producersMap[i][k] = <<>>

\* C6: with no any-listener and no open session, listenerCount(name) is the
\* number of distinct listeners subscribed to that name, whether the name is a
\* string or a number: N after N subscriptions, 0 after the name was cleared.
C6_CountIsPerName ==
  \A n \in CountNames :
    anyMap["E1"] = <<>> /\ NoProducers("E1")
      => listenerCount(World, "E1", <<n>>) = Len(events["E1"][n])

----------------------------------------------------------------------------
(* SpecSessions: sessions on "a" and on "a" and "b" of E1 are opened,      *)
(* pulled with next(), possibly several times before an item arrives, fed  *)
(* by emit, and ended by clearListeners() or by return().                  *)

\* How many sessions a behaviour of SpecSessions opens, how many next() calls
\* and how many emit calls it makes
MaxSessions == 1
MaxNexts == 2
MaxSessionEmits == 1

NextSessions ==
  \/ On("E1", <<"a">>, 1, NoLog)
  \/ OnAny("E1", 1, NoLog)
  \/ \E ns \in {<<"a">>, <<"a", "b">>} : Len(iters) < MaxSessions /\ Events("E1", ns)
  \/ \E p \in 1..Len(iters) : Len(nexts) < MaxNexts /\ IterNext(p)
  \/ \E n \in StringNames :
       Len(ems) < MaxSessionEmits /\ Emit("E1", n, Payload(Len(ems) + 1), NoLog)
  \/ ClearListeners("E1", <<undefined>>, NoLog)
  \/ \E p \in 1..Len(iters) : Return(p)
  \/ \E c \in 1..Len(nexts) : Wake(c)
  \/ \E e \in 1..Len(ems) : Dispatch(e, "ok", NoLog)
  \/ \E e \in 1..Len(ems) : DispatchNext(e, "ok", NoLog)
  \/ \E e \in 1..Len(ems) : Join(e)

SpecSessions == Init /\ [][NextSessions]_vars

\* The next() calls of session p that are suspended with no wake-up under way
Hanging(p) == {c \in 1..Len(nexts) : nexts[c].p = p /\ nexts[c].st = "waiting"}

\* C7: the step of clearListeners() that finishes an open session leaves
\* listenerCount at 0 for every name and leaves no next() call of a session
\* suspended: every pending call has been woken and will report completion.
C7_ClearTerminatesAll ==
  [][(\E p \in 1..Len(iters) : ~iters[p].isFinished /\ iters'[p].isFinished)
       => /\ \A n \in StringNames : listenerCount(World', "E1", <<n>>) = 0
          /\ \A p \in 1..Len(iters) : Hanging(p)' = {}]_vars

\* C10: the step of return() leaves the producer of the session registered
\* under no name and leaves none of its next() calls suspended, however many
\* were pending.
C10_ReturnUnblocksAll ==
  [][\A p \in 1..Len(iters) :
       ~iters[p].returned /\ iters'[p].returned
         => /\ \A k \in ProducerKeys : ~SetHas(producersMap'["E1"][k], p)
            /\ Hanging(p)' = {}]_vars

----------------------------------------------------------------------------
(* SpecEvents: one session opened with events(['a']) on E1, emit calls to  *)
(* "a" and "b" made before and after, next() calls made before and after   *)
(* the items arrive, and return().                                         *)

\* How many emit calls and how many next() calls a behaviour of SpecEvents
\* makes
MaxFeeds == 3
MaxPulls == 3

NextEvents ==
  \/ iters = <<>> /\ Events("E1", <<"a">>)
  \/ \E n \in StringNames :
       Len(ems) < MaxFeeds /\ Emit("E1", n, Payload(Len(ems) + 1), NoLog)
  \/ \E p \in 1..Len(iters) : Len(nexts) < MaxPulls /\ IterNext(p)
  \/ \E p \in 1..Len(iters) : Return(p)
  \/ \E c \in 1..Len(nexts) : Wake(c)
  \/ \E e \in 1..Len(ems) : Dispatch(e, "ok", NoLog)
  \/ \E e \in 1..Len(ems) : Join(e)

SpecEvents == Init /\ [][NextEvents]_vars

\* The payloads of the emit calls made to a name of session p on its instance
\* after the session was opened, in the order of the calls
RECURSIVE SentFrom(_, _)
SentFrom(p, e) ==
  IF e > Len(ems) THEN <<>>
  ELSE IF /\ ems[e].user /\ ~ems[e].serial /\ ems[e].inst = iters[p].inst
          /\ ems[e].name \in Range(iters[p].eventNames)
          /\ ems[e].pc \notin {"TypeError", "LoggerError"}
       THEN <<ems[e].data>> \o SentFrom(p, e + 1)
       ELSE SentFrom(p, e + 1)

Sent(p) == SentFrom(p, iters[p].since + 1)

IsPrefix(s, t) == Len(s) <= Len(t) /\ SubSeq(t, 1, Len(s)) = s

\* C8: what a session of events(['a']) has yielded, followed by what it still
\* holds, is the payloads of the emit('a', ...) calls made since it was opened,
\* each once and in the order of the calls; after return() what it has yielded
\* is a prefix of them and every next() made since reports completion.
C8_SessionYieldsEmitted ==
  /\ \A p \in 1..Len(iters) :
       IF iters[p].returned
       THEN IsPrefix(iters[p].yielded, Sent(p))
       ELSE iters[p].yielded \o iters[p].queue = Sent(p)
  /\ \A c \in 1..Len(nexts) : nexts[c].late => nexts[c].st = "done"

C8_Witness ==
  \E p \in 1..Len(iters), c \in 1..Len(nexts), e \in 1..Len(ems) :
    /\ iters[p].returned /\ Len(iters[p].yielded) = 2
    /\ iters[p].yielded[1] # iters[p].yielded[2]
    /\ nexts[c].p = p /\ nexts[c].late /\ nexts[c].st = "done"
    /\ e > iters[p].since /\ ems[e].name = "b"

----------------------------------------------------------------------------
(* SpecOnce: once(['a', 'b']) on E1, emit and emitSerial calls to "a" and  *)
(* "b", several of them made before the first is dispatched, and the off   *)
(* function of the deferred.                                               *)

\* How many once calls and how many emit/emitSerial calls a behaviour of
\* SpecOnce makes
MaxOnces == 1
MaxOnceEmits == 2

NextOnce ==
  \/ Len(onces) < MaxOnces /\ Once("E1", <<"a", "b">>, NoLog)
  \/ \E o \in 1..Len(onces) : Off("E1", onces[o].eventNames, OnceListener(o), NoLog)
  \/ On("E1", <<"a">>, 1, NoLog)
  \/ \E n \in StringNames :
       Len(ems) < MaxOnceEmits /\ Emit("E1", n, Payload(Len(ems) + 1), NoLog)
  \/ \E n \in StringNames :
       Len(ems) < MaxOnceEmits /\ EmitSerial("E1", n, Payload(Len(ems) + 1), NoLog)
  \/ \E e \in 1..Len(ems) : Dispatch(e, "ok", NoLog)
  \/ \E e \in 1..Len(ems) : DispatchNext(e, "ok", NoLog)
  \/ \E e \in 1..Len(ems) : Resume(e, "ok", NoLog)
  \/ \E e \in 1..Len(ems) : Join(e)

SpecOnce == Init /\ [][NextOnce]_vars

\* The invocations of the closure of the o-th once call, as <<emission, call>>
OnceCalls(o) ==
  UNION {{<<e, k>> : k \in {j \in 1..Len(ems[e].calls) :
                              ems[e].calls[j].listener = OnceListener(o)}} :
         e \in 1..Len(ems)}

\* C9: the closure of once(names) is invoked at most once; when it has been,
\* the deferred is resolved with the first argument of that emission and the
\* closure is subscribed to none of the names, so no later emission, and no
\* emission made before that dispatch, invokes it again.
C9_OnceAtMostOnce ==
  \A o \in 1..Len(onces) :
    /\ onces[o].invoked <= 1
    /\ Cardinality(OnceCalls(o)) = onces[o].invoked
    /\ (onces[o].st = "resolved") = (onces[o].invoked = 1)
    /\ \A ek \in OnceCalls(o) :
         /\ onces[o].val = ems[ek[1]].data[1]
         /\ ems[ek[1]].name \in Range(onces[o].eventNames)
         /\ \A n \in Range(onces[o].eventNames) :
              ~SetHas(events[onces[o].inst][n], OnceListener(o))

C9_Witness ==
  \E o \in 1..Len(onces) :
    /\ onces[o].st = "resolved" /\ onces[o].val = "z"
    /\ Len(ems) = 2 /\ ems[1].name # ems[2].name
    /\ \A e \in 1..2 : /\ OnceListener(o) \in Range(ems[e].staticListeners)
                        /\ ems[e].pc = "fulfilled"

----------------------------------------------------------------------------
(* SpecTurn: listeners of "a", of listenerAdded and an any-listener on E1; *)
(* emit and emitSerial calls to "a", and the emissions on/off/onAny make   *)
(* for listenerAdded and listenerRemoved.                                  *)

\* How many emissions, of user code and of emitMetaEvent, a behaviour of
\* SpecTurn records
MaxTurnEmits == 2

NextTurn ==
  \/ \E n \in MetaNames : On("E1", <<n>>, 1, NoLog)
  \/ Len(ems) < MaxTurnEmits /\ On("E1", <<"a">>, 2, NoLog)
  \/ Len(ems) < MaxTurnEmits /\ Off("E1", <<"a">>, 2, NoLog)
  \/ Len(ems) < MaxTurnEmits /\ OnAny("E1", 1, NoLog)
  \/ Len(ems) < MaxTurnEmits /\ Emit("E1", "a", Payload(Len(ems) + 1), NoLog)
  \/ Len(ems) < MaxTurnEmits /\ EmitSerial("E1", "a", Payload(Len(ems) + 1), NoLog)
  \/ \E e \in 1..Len(ems) : Dispatch(e, "ok", NoLog)
  \/ \E e \in 1..Len(ems) : DispatchNext(e, "ok", NoLog)
  \/ \E e \in 1..Len(ems) : Resume(e, "ok", NoLog)
  \/ \E e \in 1..Len(ems) : Join(e)

SpecTurn == Init /\ [][NextTurn]_vars

\* C11: in the step of the emit or emitSerial call, and in the step of the
\* on/off/onAny/offAny call that emits a meta-event, the new emission is
\* suspended and has invoked nobody: its listeners run in a later turn.
C11_NeverInTurnOfCall ==
  [][\A e \in 1..Len(ems') :
       e > Len(ems) => ems'[e].calls = <<>> /\ ems'[e].pc = "suspended"]_vars

C11_Witness ==
  \E e1, e2 \in 1..Len(ems) :
    /\ ~ems[e1].user /\ ems[e1].name = listenerAdded /\ Len(ems[e1].calls) = 1
    /\ ems[e2].user /\ ems[e2].calls # <<>> /\ ems[e2].pc = "fulfilled"

----------------------------------------------------------------------------
(* listenerCount over lists of names, in the states of SpecCount *)

\* The lists of one or two valid names
NameLists == {<<n>> : n \in CountNames} \cup {<<n, m>> : n, m \in CountNames}

\* The sum the count is documented to be, over the names from the k-th on
RECURSIVE SumOverNames(_, _, _)
SumOverNames(i, names, k) ==
  IF k > Len(names) THEN 0
  ELSE Len(anyMap[i]) + Len(events[i][names[k]]) + Len(producersMap[i][names[k]])
       + Len(producersMap[i][anyProducer]) + SumOverNames(i, names, k + 1)

\* C12: for every list of valid names, strings or numbers, listenerCount is the
\* sum over the names of the any-listeners, the listeners of the name, the
\* producers of the name and the wildcard producers.
C12_CountIsSumOverNames ==
  \A names \in NameLists :
    listenerCount(World, "E1", names) = SumOverNames("E1", names, 1)

----------------------------------------------------------------------------
(* SpecAny: one session opened with anyEvent() on E1, emit calls to "a"    *)
(* and "b" made before and after, next() calls and return().               *)

NextAny ==
  \/ iters = <<>> /\ AnyEvent("E1")
  \/ \E n \in StringNames :
       Len(ems) < MaxFeeds /\ Emit("E1", n, Payload(Len(ems) + 1), NoLog)
  \/ \E p \in 1..Len(iters) : Len(nexts) < MaxPulls /\ IterNext(p)
  \/ \E p \in 1..Len(iters) : Return(p)
  \/ \E c \in 1..Len(nexts) : Wake(c)
  \/ \E e \in 1..Len(ems) : Dispatch(e, "ok", NoLog)
  \/ \E e \in 1..Len(ems) : Join(e)

SpecAny == Init /\ [][NextAny]_vars

\* The items of the emit calls made on the instance of session p since it was
\* opened: for each call one array holding the promise of [name, ...data]
RECURSIVE AnySentFrom(_, _)
AnySentFrom(p, e) ==
  IF e > Len(ems) THEN <<>>
  ELSE IF ems[e].user /\ ~ems[e].serial /\ ems[e].inst = iters[p].inst
       THEN <<<<PromiseAll(<<ems[e].name>> \o ems[e].data)>>>> \o AnySentFrom(p, e + 1)
       ELSE AnySentFrom(p, e + 1)

AnySent(p) == AnySentFrom(p, iters[p].since + 1)

\* C13: a session of anyEvent() is in the wildcard slot and counted by
\* listenerCount until return(); what it has yielded followed by what it holds
\* is one item per emit call made since, of any name, combining the name and
\* the data, in the order of the calls.
C13_AnySessionFed ==
  \A p \in 1..Len(iters) :
    IF iters[p].returned
    THEN /\ IsPrefix(iters[p].yielded, AnySent(p))
         /\ listenerCount(World, "E1", <<"a">>) = 0
    ELSE /\ iters[p].yielded \o iters[p].queue = AnySent(p)
         /\ SetHas(producersMap["E1"][anyProducer], p)
         /\ listenerCount(World, "E1", <<"a">>) = 1

C13_Witness ==
  \E p \in 1..Len(iters) :
    /\ ~iters[p].returned /\ Len(iters[p].yielded) = 2
    /\ iters[p].yielded[1][1].promise[1] = "a"
    /\ iters[p].yielded[2][1].promise[1] = "b"
    /\ listenerCount(World, "E1", <<"a">>) = 1

----------------------------------------------------------------------------
(* SpecAnnounce: listener 1 listens to listenerAdded and listenerRemoved   *)
(* on E1; listener 2 is subscribed to and unsubscribed from lists of names *)
(* with and without meta names, and the meta-events are dispatched.        *)

\* From how many recorded emissions on a behaviour of SpecAnnounce makes no
\* further on/off call
MaxAnnounced == 2

AnnounceLists == {<<"a", "b">>, <<listenerAdded>>, <<"a", listenerRemoved>>}

NextAnnounce ==
  \/ On("E1", <<listenerAdded, listenerRemoved>>, 1, NoLog)
  \/ \E names \in AnnounceLists : Len(ems) < MaxAnnounced /\ On("E1", names, 2, NoLog)
  \/ \E names \in AnnounceLists : Len(ems) < MaxAnnounced /\ Off("E1", names, 2, NoLog)
  \/ \E e \in 1..Len(ems) : Dispatch(e, "ok", NoLog)
  \/ \E e \in 1..Len(ems) : DispatchNext(e, "ok", NoLog)
  \/ \E e \in 1..Len(ems) : Join(e)

SpecAnnounce == Init /\ [][NextAnnounce]_vars

NonMeta(names) == SelectSeq(names, LAMBDA n : ~isMetaEvent(n))

\* The emissions a step adds are one of the meta-event per non-meta name of
\* names, in order, each with the payload {eventName, listener}
Announced(meta, names, listener) ==
  LET new == SubSeq(ems', Len(ems) + 1, Len(ems')) IN
  /\ Len(new) = Len(NonMeta(names))
  /\ \A k \in 1..Len(new) :
       /\ ~new[k].user /\ new[k].name = meta
       /\ new[k].data = MetaData(NonMeta(names)[k], listener)

\* C14: while somebody listens to the meta-events, a step on(names, L) emits
\* listenerAdded exactly once per non-meta name of names, with {eventName,
\* listener}, and a step off(names, L) emits listenerRemoved likewise; for a
\* meta name nothing is emitted.
C14_MetaOncePerName ==
  [][/\ On("E1", <<listenerAdded, listenerRemoved>>, 1, NoLog) => ems' = ems
     /\ \A names \in AnnounceLists :
          (\A n \in MetaNames : SetHas(events["E1"][n], 1))
            => /\ On("E1", names, 2, NoLog) => Announced(listenerAdded, names, 2)
               /\ Off("E1", names, 2, NoLog) => Announced(listenerRemoved, names, 2)]_vars

C14_Witness ==
  \E e1, e2, e3 \in 1..Len(ems) :
    /\ e1 < e2 /\ ems[e1].name = listenerAdded /\ ems[e2].name = listenerAdded
    /\ ems[e1].data = MetaData("a", 2) /\ ems[e2].data = MetaData("b", 2)
    /\ ems[e3].name = listenerRemoved /\ ems[e3].data = MetaData("a", 2)
    /\ Len(ems[e1].calls) = 1
    /\ SetHas(events["E1"][listenerAdded], 2)

----------------------------------------------------------------------------
(* SpecOff: listeners 1 and 2 are subscribed to the names of E1, an        *)
(* any-listener is added and a session on "a" is opened; off is called     *)
(* with lists of names for listeners that are subscribed and that are not. *)

OffLists == {<<"a">>, <<"b", "a">>, <<"n7">>}

NextOff ==
  \/ \E n \in CountNames, l \in UserListeners : On("E1", <<n>>, l, NoLog)
  \/ \E names \in OffLists, l \in UserListeners : Off("E1", names, l, NoLog)
  \/ OnAny("E1", 1, NoLog)
  \/ iters = <<>> /\ Events("E1", <<"a">>)

SpecOff == Init /\ [][NextOff]_vars

\* C15: a step off(names, L) for a listener L subscribed to none of the names
\* raises nothing and leaves the listener sets, the any-listener set and the
\* producer sets as they were.
C15_OffAbsentIsNoOp ==
  [][\A names \in OffLists, l \in UserListeners :
       (/\ \A k \in 1..Len(names) : ~SetHas(events["E1"][names[k]], l)
        /\ Off("E1", names, l, NoLog))
         => /\ ret' = "none"
            /\ events' = events /\ anyMap' = anyMap /\ producersMap' = producersMap]_vars

C15_Witness ==
  /\ events["E1"]["a"] = <<1>> /\ events["E1"]["b"] = <<1>>
  /\ anyMap["E1"] = <<1>>
  /\ producersMap["E1"]["a"] = <<1>>
  /\ ret = "none"

----------------------------------------------------------------------------
(* Failures of listeners during emitSerial, in the behaviours of SpecSerial *)

\* C16: in an emitSerial a failed invocation is the last one: nobody is invoked
\* after it, the failed listener is not invoked again, and the call ends
\* rejected, never fulfilled.
C16_SerialStopsAtFailure ==
  \A e \in 1..Len(ems) :
    ems[e].serial =>
      /\ \A k \in 1..Len(ems[e].calls) :
           ems[e].calls[k].st = "failed" => k = Len(ems[e].calls)
      /\ \A j, k \in 1..Len(ems[e].calls) :
           (/\ ems[e].calls[j].listener = ems[e].calls[k].listener
            /\ ems[e].calls[j].any = ems[e].calls[k].any) => j = k
      /\ ems[e].pc = "rejected" => LastCall(ems[e]).st = "failed"
      /\ (ems[e].calls # <<>> /\ LastCall(ems[e]).st = "failed")
           => ems[e].pc \in {"awaiting", "rejected"}

C16_Witness ==
  \E e \in 1..Len(ems) :
    /\ ems[e].serial /\ ems[e].pc = "rejected"
    /\ Len(Snapshot(ems[e])) = 3 /\ Len(ems[e].calls) = 1
    /\ \A l \in Range(ems[e].staticListeners) : SetHas(events["E1"]["a"], l)
    /\ SetHas(anyMap["E1"], 1)

----------------------------------------------------------------------------
(* Failures of listeners during emit, in the behaviours of SpecJoin *)

\* C17: an emit in which a listener failed is never fulfilled, and once its
\* dispatch turn is over every listener and any-listener that was subscribed at
\* the call and not removed since has been invoked exactly once all the same,
\* and nobody more than once.
C17_EmitFailureNotIsolated ==
  \A e \in 1..Len(ems) :
    LET em == ems[e]
        failed == \E k \in 1..Len(em.calls) : em.calls[k].st = "failed"
    IN
    (em.user /\ ~em.serial) =>
      /\ failed => em.pc \in {"dispatching", "awaiting", "rejected"}
      /\ em.pc = "rejected" => failed
      /\ (failed /\ em.pc \in {"awaiting", "rejected"}) =>
           /\ \A l \in Range(em.subscribed) :
                /\ Cardinality(CallsOf(em, l, FALSE)) <= 1
                /\ <<l, FALSE>> \notin em.gone => Cardinality(CallsOf(em, l, FALSE)) = 1
           /\ \A l \in Range(em.subscribedAny) :
                /\ Cardinality(CallsOf(em, l, TRUE)) <= 1
                /\ <<l, TRUE>> \notin em.gone => Cardinality(CallsOf(em, l, TRUE)) = 1

C17_Witness ==
  \E e \in 1..Len(ems) :
    /\ ems[e].user /\ ~ems[e].serial /\ ems[e].pc = "rejected"
    /\ Len(ems[e].calls) = 3 /\ ems[e].calls[1].st = "failed"
    /\ ems[e].calls[2].st = "ok" /\ ems[e].calls[3].any

----------------------------------------------------------------------------
(* SpecLog: debug logging is switched on and off; on, emit, emitSerial and *)
(* clearListeners are called on E1 with a logger that returns and with one *)
(* that throws, while a session on "a" is open or not.                     *)

\* How many emit/emitSerial calls a behaviour of SpecLog makes
MaxLogEmits == 1

\* A logger callback that throws at its first call of a turn
ThrowLog == [act |-> "throw", at |-> 1, inst |-> "E1", name |-> "a", data |-> <<>>,
             serial |-> FALSE]

LogActs == {NoLog, ThrowLog}

NextLog ==
  \/ \E v \in BOOLEAN : SetIsDebugEnabled(v)
  \/ \E l \in UserListeners, lg \in LogActs : On("E1", <<"a">>, l, lg)
  \/ \E lg \in LogActs : Off("E1", <<"a">>, 2, lg)
  \/ \E lg \in LogActs : ClearListeners("E1", <<"a">>, lg)
  \/ iters = <<>> /\ Events("E1", <<"a">>)
  \/ \E lg \in LogActs :
       Len(ems) < MaxLogEmits /\ Emit("E1", "a", Payload(Len(ems) + 1), lg)
  \/ \E lg \in LogActs :
       Len(ems) < MaxLogEmits /\ EmitSerial("E1", "a", Payload(Len(ems) + 1), lg)
  \/ \E e \in 1..Len(ems) : Dispatch(e, "ok", NoLog)
  \/ \E e \in 1..Len(ems) : DispatchNext(e, "ok", NoLog)
  \/ \E e \in 1..Len(ems) : Resume(e, "ok", NoLog)
  \/ \E e \in 1..Len(ems) : Join(e)

SpecLog == Init /\ [][NextLog]_vars

\* The world with logging enabled or disabled
WithLogging(w, on) == [w EXCEPT !.isGlobalDebugEnabled = on]

\* What a call leaves behind, but for the logging itself: the listener sets,
\* the sessions and what they were fed, the emissions, and what it threw
Observed(w) == <<w.events, w.anyMap, w.producersMap, w.iters, w.ems, w.thrown>>

\* C18: in every state, each of on, off, emit, emitSerial and clearListeners
\* leaves the same listener sets, sessions, emissions and outcome when logging
\* is enabled, with a logger that returns or with one that throws, as when it
\* is disabled.
C18_LoggingIsSideChannel ==
  \A lg \in LogActs :
    LET on == WithLogging(World, TRUE)
        off == WithLogging(World, FALSE)
    IN
    /\ Observed(EmitterOn(on, "E1", <<"a">>, 2, lg))
         = Observed(EmitterOn(off, "E1", <<"a">>, 2, NoLog))
    /\ Observed(EmitterOff(on, "E1", <<"a">>, 2, lg))
         = Observed(EmitterOff(off, "E1", <<"a">>, 2, NoLog))
    /\ \A serial \in BOOLEAN :
         Observed(EmitCall(on, "E1", "a", <<"x">>, serial, TRUE, lg))
           = Observed(EmitCall(off, "E1", "a", <<"x">>, serial, TRUE, NoLog))
    /\ Observed(EmitterClearListeners(on, "E1", <<"a">>, lg))
         = Observed(EmitterClearListeners(off, "E1", <<"a">>, NoLog))

----------------------------------------------------------------------------
(* SpecQueue: one session on "a" and "b" of E1 and a listener of "a";      *)
(* clearListeners('a'), next(), return() and emit calls to "a" and "b",    *)
(* every listener returning normally.                                      *)

NextQueue ==
  \/ On("E1", <<"a">>, 1, NoLog)
  \/ iters = <<>> /\ Events("E1", <<"a", "b">>)
  \/ ClearListeners("E1", <<"a">>, NoLog)
  \/ \E p \in 1..Len(iters) : Len(nexts) < MaxNexts /\ IterNext(p)
  \/ \E p \in 1..Len(iters) : Return(p)
  \/ \E c \in 1..Len(nexts) : Wake(c)
  \/ \E n \in StringNames :
       Len(ems) < MaxSessionEmits /\ Emit("E1", n, Payload(Len(ems) + 1), NoLog)
  \/ \E e \in 1..Len(ems) : Dispatch(e, "ok", NoLog)
  \/ \E e \in 1..Len(ems) : Join(e)

SpecQueue == Init /\ [][NextQueue]_vars

\* C19: an emit with a valid name that is not a meta name, whose listeners all
\* return normally, is never rejected: it is suspended, dispatched and
\* fulfilled, whatever was done to the sessions before.
C19_EmitNeverFailsOnQueue ==
  \A e \in 1..Len(ems) :
    (ems[e].user /\ ValidEventName(ems[e].name) /\ ~isMetaEvent(ems[e].name))
      => ems[e].pc \in {"suspended", "dispatching", "awaiting", "fulfilled"}

----------------------------------------------------------------------------
(* The snapshot of emit and emitSerial, in the behaviours of SpecLive *)

\* C20: whoever an emit or emitSerial has invoked was subscribed, as listener
\* of the name or as any-listener, when the call was made: a listener
\* subscribed since, before or during the dispatch, is not invoked for it.
C20_OnlySnapshotInvoked ==
  \A e \in 1..Len(ems) :
    \A k \in 1..Len(ems[e].calls) :
      IF ems[e].calls[k].any
      THEN ems[e].calls[k].listener \in Range(ems[e].subscribedAny)
      ELSE ems[e].calls[k].listener \in Range(ems[e].subscribed)

C20_Witness ==
  \E e \in 1..Len(ems) :
    /\ ems[e].pc = "fulfilled" /\ ems[e].subscribed = <<1>> /\ ems[e].subscribedAny = <<>>
    /\ Len(ems[e].calls) = 1
    /\ SetHas(events["E1"]["a"], 2) /\ SetHas(anyMap["E1"], 1)

----------------------------------------------------------------------------
(* Producers finished by clearListeners(name), in the behaviours of SpecQueue *)

\* C21: a producer that clearListeners has finished is registered under no
\* name of its instance any more, so no listenerCount counts it and no emit
\* feeds it.
C21_FinishedIsUnregistered ==
  \A p \in 1..Len(iters) :
    iters[p].isFinished =>
      /\ \A k \in ProducerKeys : ~SetHas(producersMap[iters[p].inst][k], p)
      /\ \A n \in StringNames : listenerCount(World, iters[p].inst, <<n>>)
                                   = Len(events[iters[p].inst][n])

----------------------------------------------------------------------------
(* SpecDrain: one session on "a" of E1, emit calls to "a", next() calls    *)
(* made before and after the items arrive, and clearListeners('a') or      *)
(* clearListeners() finishing the session while items are queued or not.   *)

NextDrain ==
  \/ iters = <<>> /\ Events("E1", <<"a">>)
  \/ Len(ems) < MaxFeeds /\ Emit("E1", "a", Payload(Len(ems) + 1), NoLog)
  \/ \E p \in 1..Len(iters) : Len(nexts) < MaxPulls /\ IterNext(p)
  \/ \E n \in {"a", undefined} : ClearListeners("E1", <<n>>, NoLog)
  \/ \E c \in 1..Len(nexts) : Wake(c)
  \/ \E e \in 1..Len(ems) : Dispatch(e, "ok", NoLog)
  \/ \E e \in 1..Len(ems) : Join(e)

SpecDrain == Init /\ [][NextDrain]_vars

\* C22: the step that finishes a session leaves its queue as it is; from then
\* on every step leaves what the session has yielded followed by what it
\* holds unchanged, so the queued items come out of next() in order; next()
\* reports completion only when the queue is empty, and once it has, every
\* new next() reports completion.
C22_FinishedDrainsFirst ==
  [][\A p \in 1..Len(iters) :
       /\ (~iters[p].isFinished /\ iters'[p].isFinished)
            => iters'[p].queue = iters[p].queue /\ iters'[p].yielded = iters[p].yielded
       /\ (iters[p].isFinished /\ iters[p].hasQueue)
            => iters'[p].yielded \o iters'[p].queue = iters[p].yielded \o iters[p].queue
       /\ (iters[p].hasQueue /\ ~iters'[p].hasQueue)
            => iters[p].isFinished /\ iters[p].queue = <<>>
       /\ (~iters[p].hasQueue /\ Len(nexts') > Len(nexts))
            => nexts'[Len(nexts')].st = "done"
       /\ \A c \in 1..Len(nexts) :
            (nexts[c].p = p /\ nexts'[c].st = "done" /\ nexts[c].st # "done")
              => iters[p].isFinished /\ iters[p].queue = <<>>]_vars

C22_Witness ==
  \E p \in 1..Len(iters) :
    /\ iters[p].isFinished /\ iters[p].hasQueue
    /\ Len(iters[p].queue) = 1 /\ Len(iters[p].yielded) = 1
    /\ \A k \in ProducerKeys : ~SetHas(producersMap["E1"][k], p)

----------------------------------------------------------------------------
(* SpecFlag: listener 1 listens to both meta-events of E1; listener 2 and  *)
(* the any-listener 1 are subscribed and unsubscribed, at top level and    *)
(* while a dispatch is under way, with logging enabled or not and a logger *)
(* that returns, throws inside the emit of emitMetaEvent, or emits there.  *)

\* How many emissions a behaviour of SpecFlag records
MaxFlagEmits == 2

\* The logger callbacks: at its second call of a turn, which is the one made
\* by the emit of emitMetaEvent, the logger throws or emits a forged
\* listenerAdded
FlagLoggers ==
  {NoLog,
   [act |-> "throw", at |-> 2, inst |-> "E1", name |-> "a", data |-> <<>>,
    serial |-> FALSE],
   [act |-> "emit", at |-> 2, inst |-> "E1", name |-> listenerAdded,
    data |-> ForgedData, serial |-> FALSE]}

NextFlag ==
  \/ \E v \in BOOLEAN : SetIsDebugEnabled(v)
  \/ On("E1", <<listenerAdded, listenerRemoved>>, 1, NoLog)
  \/ \E lg \in FlagLoggers : Len(ems) < MaxFlagEmits /\ On("E1", <<"a">>, 2, lg)
  \/ \E lg \in FlagLoggers : Len(ems) < MaxFlagEmits /\ Off("E1", <<"a">>, 2, lg)
  \/ \E lg \in FlagLoggers : Len(ems) < MaxFlagEmits /\ OnAny("E1", 1, lg)
  \/ \E lg \in FlagLoggers : Len(ems) < MaxFlagEmits /\ OffAny("E1", 1, lg)
  \/ \E e \in 1..Len(ems) : Dispatch(e, "ok", NoLog)
  \/ \E e \in 1..Len(ems) : Join(e)

SpecFlag == Init /\ [][NextFlag]_vars

\* C23: between the calls, that is in every state, canEmitMetaEvents is
\* false: each on, off, onAny and offAny call, made at top level or from a
\* listener, lowers the flag before it returns, whether the emit inside
\* emitMetaEvent returned or failed.
C23_FlagLoweredBetweenCalls == canEmitMetaEvents = FALSE

\* The logger has emitted inside the emit of an emitMetaEvent: the flag was up
\* then, and that emission is under way
C23_Witness ==
  /\ debug["E1"].enabled \/ isGlobalDebugEnabled
  /\ \E e \in 1..Len(ems) :
       ems[e].user /\ isMetaEvent(ems[e].name) /\ ems[e].pc # "TypeError"

----------------------------------------------------------------------------
(* SpecInvalid: listener 1 listens to both meta-events of E1, and on is    *)
(* called with listener 2 or with something that is not a function, and    *)
(* with lists of names that hold null or undefined at the first, second or *)
(* third place; off withdraws listener 2 again.                            *)

\* How many emissions a behaviour of SpecInvalid records
MaxInvalidEmits == 3

InvalidLists ==
  {<<"a", "b">>, <<null, "a">>, <<"a", null, "b">>, <<"b", "a", undefined>>}

NextInvalid ==
  \/ On("E1", <<listenerAdded, listenerRemoved>>, 1, NoLog)
  \/ \E names \in InvalidLists, l \in {2, notAFunction} :
       Len(ems) < MaxInvalidEmits /\ On("E1", names, l, NoLog)
  \/ \E n \in StringNames : Len(ems) < MaxInvalidEmits /\ Off("E1", <<n>>, 2, NoLog)
  \/ \E e \in 1..Len(ems) : Dispatch(e, "ok", NoLog)
  \/ \E e \in 1..Len(ems) : Join(e)

SpecInvalid == Init /\ [][NextInvalid]_vars

\* The place of the first invalid name of names, Len(names) + 1 without one
FirstInvalid(names) ==
  IF \A k \in 1..Len(names) : ValidEventName(names[k]) THEN Len(names) + 1
  ELSE CHOOSE k \in 1..Len(names) :
         /\ ~ValidEventName(names[k])
         /\ \A j \in 1..(k - 1) : ValidEventName(names[j])

\* C24: a step on(names, x) with x not a function throws a TypeError and
\* changes no listener set, no session and emits nothing; while somebody
\* listens to the meta-events, a step on(names, L) with the first invalid name
\* at place k throws a TypeError, has subscribed L to exactly the names before
\* place k and has announced exactly those, in order.
C24_OnFailsAtFirstInvalid ==
  [][/\ On("E1", <<listenerAdded, listenerRemoved>>, 1, NoLog) => ems' = ems
     /\ \A names \in InvalidLists :
          /\ On("E1", names, notAFunction, NoLog)
               => /\ ret' = "TypeError"
                  /\ UNCHANGED <<events, anyMap, producersMap, ems, iters, nexts, onces>>
          /\ ((\A n \in MetaNames : SetHas(events["E1"][n], 1))
                /\ On("E1", names, 2, NoLog))
               => LET k == FirstInvalid(names)
                      before == SubSeq(names, 1, k - 1)
                  IN /\ ret' = (IF k <= Len(names) THEN "TypeError" ELSE "none")
                     /\ \A n \in StringNames :
                          events'["E1"][n] = IF n \in Range(before)
                                             THEN SetAdd(events["E1"][n], 2)
                                             ELSE events["E1"][n]
                     /\ Announced(listenerAdded, before, 2)]_vars

\* on(['a', null, 'b'], 2) has thrown: 2 listens to "a" and not to "b", and
\* the one listenerAdded emitted is for "a"
C24_Witness ==
  /\ ret = "TypeError"
  /\ SetHas(events["E1"]["a"], 2) /\ ~SetHas(events["E1"]["b"], 2)
  /\ Len(ems) = 1 /\ ems[1].name = listenerAdded /\ ems[1].data = MetaData("a", 2)

----------------------------------------------------------------------------
(* SpecFeed: listener 1 may listen to "a" of E1, then a session of         *)
(* events('a') and one of anyEvent() are opened, and "a" is emitted with   *)
(* emit and with emitSerial while a next() call on each session runs.      *)

\* How many emit/emitSerial calls a behaviour of SpecFeed makes
MaxFeedEmits == 2

NextFeed ==
  \/ iters = <<>> /\ On("E1", <<"a">>, 1, NoLog)
  \/ iters = <<>> /\ Events("E1", <<"a">>)
  \/ Len(iters) = 1 /\ AnyEvent("E1")
  \/ Len(ems) < MaxFeedEmits /\ Emit("E1", "a", Payload(Len(ems) + 1), NoLog)
  \/ Len(ems) < MaxFeedEmits /\ EmitSerial("E1", "a", Payload(Len(ems) + 1), NoLog)
  \/ \E p \in 1..Len(iters) :
       (\A c \in 1..Len(nexts) : nexts[c].p # p) /\ IterNext(p)
  \/ \E c \in 1..Len(nexts) : Wake(c)
  \/ \E e \in 1..Len(ems) : Dispatch(e, "ok", NoLog)
  \/ \E e \in 1..Len(ems) : Join(e)

SpecFeed == Init /\ [][NextFeed]_vars

\* C25: a step emitSerial('a', d) leaves every session as it is; a step
\* emit('a', d) appends d to the queue of each session registered for "a" and
\* ['a', ...d] to the queue of each wildcard session, and no listener has run
\* when it returns; so what a session has yielded and holds counts the emit
\* calls made since it was opened, and none of the emitSerial calls.
C25_SerialFeedsNoSession ==
  [][LET d == Payload(Len(ems) + 1) IN
     /\ EmitSerial("E1", "a", d, NoLog)
          => iters' = iters /\ nexts' = nexts /\ Len(ems') = Len(ems) + 1
     /\ Emit("E1", "a", d, NoLog)
          => /\ Len(iters') = Len(iters)
             /\ \A p \in 1..Len(iters) :
                  iters'[p].queue =
                    IF SetHas(producersMap["E1"]["a"], p)
                    THEN Append(iters[p].queue, d)
                    ELSE IF SetHas(producersMap["E1"][anyProducer], p)
                    THEN Append(iters[p].queue, <<PromiseAll(<<"a">> \o d)>>)
                    ELSE iters[p].queue
             /\ ems'[Len(ems')].pc = "suspended" /\ ems'[Len(ems')].calls = <<>>
     /\ \A p \in 1..Len(iters') :
          Len(iters'[p].yielded) + Len(iters'[p].queue)
            = Cardinality({e \in (iters'[p].since + 1)..Len(ems') : ~ems'[e].serial})]_vars

\* Both sessions are open, an emitSerial call and then an emit call have been
\* made, and each session has yielded or holds one item
C25_Witness ==
  /\ Len(iters) = 2 /\ iters[1].since = 0 /\ iters[2].since = 0
  /\ Len(ems) = 2 /\ ems[1].serial /\ ~ems[2].serial
  /\ ems[1].calls # <<>>
  /\ Len(iters[1].yielded) = 1 /\ Len(iters[2].queue) = 1

----------------------------------------------------------------------------
(* SpecClear: the any-listener 1 is subscribed, then listener 1 listens to *)
(* both meta-events of E1 and listener 2 is subscribed to "a" and "b"; a   *)
(* session is opened on "a" and then one on "b", each consumed by one      *)
(* next() call, and clearListeners is called for "a" or for "b".           *)

\* How many emissions a behaviour of SpecClear records before the last on
MaxClearEmits == 2

NextClear ==
  \/ ems = <<>> /\ OnAny("E1", 1, NoLog)
  \/ On("E1", <<listenerAdded, listenerRemoved>>, 1, NoLog)
  \/ Len(ems) < MaxClearEmits /\ On("E1", <<"a", "b">>, 2, NoLog)
  \/ iters = <<>> /\ Events("E1", <<"a">>)
  \/ Len(iters) = 1 /\ Events("E1", <<"b">>)
  \/ \E p \in 1..Len(iters) :
       (\A c \in 1..Len(nexts) : nexts[c].p # p) /\ IterNext(p)
  \/ \E c \in 1..Len(nexts) : Wake(c)
  \/ \E n \in StringNames : ClearListeners("E1", <<n>>, NoLog)
  \/ \E e \in 1..Len(ems) : Dispatch(e, "ok", NoLog)

SpecClear == Init /\ [][NextClear]_vars

\* C26: a step clearListeners(n) for a string name n leaves the listener set
\* and the producer set of n empty, has finished every session that was in
\* the producer set of n, leaves the any-listeners and the listener set and
\* producer set of every other name as they were, and emits nothing.
C26_ClearOfNameIsLocal ==
  [][\A n \in StringNames :
       ClearListeners("E1", <<n>>, NoLog)
         => /\ ret' = "none"
            /\ events'["E1"][n] = <<>> /\ producersMap'["E1"][n] = <<>>
            /\ \A p \in Range(producersMap["E1"][n]) : iters'[p].isFinished
            /\ anyMap' = anyMap
            /\ \A m \in EventNames \ {n} : events'["E1"][m] = events["E1"][m]
            /\ \A k \in ProducerKeys \ {n} : producersMap'["E1"][k] = producersMap["E1"][k]
            /\ ems' = ems]_vars

\* Listener 2 had been subscribed to "a" and is no longer, with no
\* listenerRemoved emitted; the session on "a" is finished; listener 2 on "b",
\* the any-listener and the session on "b" are still there
C26_Witness ==
  /\ SetHas(events["E1"][listenerRemoved], 1)
  /\ \E e \in 1..Len(ems) : ems[e].data = MetaData("a", 2)
  /\ \A e \in 1..Len(ems) : ems[e].name # listenerRemoved
  /\ events["E1"]["a"] = <<>> /\ SetHas(events["E1"]["b"], 2)
  /\ SetHas(anyMap["E1"], 1)
  /\ Len(iters) = 2 /\ iters[1].isFinished /\ ~iters[2].isFinished
  /\ producersMap["E1"]["a"] = <<>> /\ SetHas(producersMap["E1"]["b"], 2)

----------------------------------------------------------------------------
(* SpecTwo: two instances.  On E2 listener 2 is subscribed to "a" and as   *)
(* any-listener and a session is opened on "a".  On E1 listener 1 is       *)
(* subscribed and unsubscribed likewise, a session is opened on "a" and    *)
(* consumed, "a" is emitted and clearListeners is called.                  *)

\* How many emit calls a behaviour of SpecTwo makes
MaxTwoEmits == 1

\* The calls made on E2: the session, then the listener, then the any-listener
CallOnE2 ==
  \/ iters = <<>> /\ Events("E2", <<"a">>)
  \/ iters # <<>> /\ On("E2", <<"a">>, 2, NoLog)
  \/ events["E2"]["a"] # <<>> /\ OnAny("E2", 2, NoLog)

\* The calls made on E1
CallOnE1 ==
  \/ On("E1", <<"a">>, 1, NoLog)
  \/ Off("E1", <<"a">>, 1, NoLog)
  \/ OnAny("E1", 1, NoLog)
  \/ OffAny("E1", 1, NoLog)
  \/ Len(iters) = 1 /\ Events("E1", <<"a">>)
  \/ \E n \in {"a", undefined} : ClearListeners("E1", <<n>>, NoLog)
  \/ Len(ems) < MaxTwoEmits /\ Emit("E1", "a", Payload(Len(ems) + 1), NoLog)

NextTwo ==
  \/ CallOnE2
  \/ CallOnE1
  \/ \E p \in 1..Len(iters) :
       /\ iters[p].inst = "E1"
       /\ \A c \in 1..Len(nexts) : nexts[c].p # p
       /\ IterNext(p)
  \/ \E c \in 1..Len(nexts) : Wake(c)
  \/ \E e \in 1..Len(ems) : Dispatch(e, "ok", NoLog)
  \/ \E e \in 1..Len(ems) : DispatchNext(e, "ok", NoLog)

SpecTwo == Init /\ [][NextTwo]_vars

\* C27: the listener sets, the any-listeners and the producer sets of E2
\* change in calls made on E2 only; no step made for E1 (a call, a dispatch, a
\* next()) changes a session of E2; and the emissions of E1 never invoke
\* listener 2, which is subscribed on E2 only.
C27_InstancesAreApart ==
  [][/\ (\/ events'["E2"] # events["E2"]
          \/ anyMap'["E2"] # anyMap["E2"]
          \/ producersMap'["E2"] # producersMap["E2"]) => CallOnE2
     /\ \A p \in 1..Len(iters) : iters[p].inst = "E2" => iters'[p] = iters[p]
     /\ CallOnE1 => \A e \in (Len(ems) + 1)..Len(ems') : ems'[e].inst = "E1"
     /\ \A e \in 1..Len(ems') :
          /\ ems'[e].inst = "E1"
          /\ \A k \in 1..Len(ems'[e].calls) : ems'[e].calls[k].listener = 1]_vars

\* E2 has its listener, its any-listener and its session; on E1 an emission
\* has invoked listener 1 as listener and as any-listener and has fed the
\* session of E1, and clearListeners() has finished that session
C27_Witness ==
  /\ SetHas(events["E2"]["a"], 2) /\ SetHas(anyMap["E2"], 2)
  /\ Len(iters) = 2 /\ SetHas(producersMap["E2"]["a"], 1)
  /\ iters[1].queue = <<>> /\ ~iters[1].isFinished
  /\ iters[2].isFinished /\ Len(iters[2].yielded) + Len(iters[2].queue) = 1
  /\ \E e \in 1..Len(ems) : Len(ems[e].calls) = 2

----------------------------------------------------------------------------
(* SpecAnyMeta: listener 1 listens to both meta-events of E1, listener 2   *)
(* is subscribed and unsubscribed as any-listener and as listener of "a",  *)
(* listener 1 as any-listener too, and "a" is emitted.                     *)

\* How many emissions a behaviour of SpecAnyMeta records
MaxAnyMetaEmits == 2

NextAnyMeta ==
  \/ On("E1", <<listenerAdded, listenerRemoved>>, 1, NoLog)
  \/ \E l \in UserListeners : Len(ems) < MaxAnyMetaEmits /\ OnAny("E1", l, NoLog)
  \/ Len(ems) < MaxAnyMetaEmits /\ OffAny("E1", 2, NoLog)
  \/ Len(ems) < MaxAnyMetaEmits /\ On("E1", <<"a">>, 2, NoLog)
  \/ Len(ems) < MaxAnyMetaEmits /\ Off("E1", <<"a">>, 2, NoLog)
  \/ Len(ems) < MaxAnyMetaEmits /\ Emit("E1", "a", Payload(Len(ems) + 1), NoLog)
  \/ \E e \in 1..Len(ems) : Dispatch(e, "ok", NoLog)
  \/ \E e \in 1..Len(ems) : DispatchNext(e, "ok", NoLog)
  \/ \E e \in 1..Len(ems) : Join(e)

SpecAnyMeta == Init /\ [][NextAnyMeta]_vars

\* C28: an emission of listenerAdded or listenerRemoved made by on, off,
\* onAny or offAny has no any-listener in its snapshot and invokes nobody as
\* any-listener: whom it invokes was subscribed to that meta-event name when
\* it was made.
C28_MetaSkipsAnyListeners ==
  \A e \in 1..Len(ems) :
    (~ems[e].user /\ isMetaEvent(ems[e].name))
      => /\ ems[e].staticAnyListeners = <<>>
         /\ \A k \in 1..Len(ems[e].calls) :
              /\ ~ems[e].calls[k].any
              /\ SetHas(ems[e].subscribed, ems[e].calls[k].listener)

\* A meta-event made while listener 2 was any-listener has run to completion
\* and has invoked listener 1
C28_Witness ==
  \E e \in 1..Len(ems) :
    /\ ~ems[e].user /\ isMetaEvent(ems[e].name)
    /\ SetHas(ems[e].subscribedAny, 2)
    /\ ems[e].pc = "fulfilled" /\ Len(ems[e].calls) = 1

----------------------------------------------------------------------------
(* Emitter.mixin(emitteryPropertyName, methodNames)(target)                *)

\* The property name the mixin is given, the names of the prototype methods of
\* Emitter, and the static properties of the class Emitter
emitteryPropertyName == "emitter"
allEmitteryMethods ==
  {"logIfDebugEnabled", "on", "off", "once", "events", "emit", "emitSerial", "onAny",
   "anyEvent", "offAny", "clearListeners", "listenerCount", "bindMethods"}
EmitterStatics ==
  {"mixin", "isDebugEnabled", "listenerAdded", "listenerRemoved", "prototype", "name",
   "length"}

\* The value of this in the body of the static method mixin and so, arrow
\* functions taking this from where they are written, in the decorator and in
\* emitteryMethodCaller: the class, mixin being called as Emitter.mixin(...)
mixinThis == "Emitter"

\* target.prototype[name] !== undefined
OnPrototype(w, name) ==
  \/ name \in w.mix.declared
  \/ name \in w.mix.methods
  \/ name = emitteryPropertyName /\ w.mix.accessor

\* new Emitter() for an object of the class: an instance no object holds yet
NewEmitter(w) ==
  CHOOSE i \in Instances :
    /\ \A h \in Hosts : w.mix.own[h] # i
    /\ i = "E1" \/ \E h \in Hosts : w.mix.own[h] = "E1"

\* getEmitteryProperty, the getter on the prototype, run with this = h: it
\* defines the property on h itself with a new emitter
getEmitteryProperty(w, h) == [w EXCEPT !.mix.own[h] = NewEmitter(w)]

\* The world after the read of obj[emitteryPropertyName], and what is read:
\* the own property of an object of the class, made by the getter at the first
\* read; undefined on the class Emitter, which has no such static property
ReadProperty(w, obj) ==
  IF obj \in Hosts /\ w.mix.own[obj] = "none" /\ w.mix.accessor
  THEN getEmitteryProperty(w, obj)
  ELSE w

PropertyOf(w, obj) ==
  IF obj \in Hosts
  THEN (IF w.mix.own[obj] # "none" THEN w.mix.own[obj] ELSE undefined)
  ELSE IF emitteryPropertyName \in EmitterStatics THEN emitteryPropertyName
  ELSE undefined

\* defaultMethodNamesOrAssert(methodNames), methodNames an array of strings
ValidMethodNames(methodNames) ==
  \A k \in 1..Len(methodNames) : methodNames[k] \in allEmitteryMethods

\* mixin(emitteryPropertyName, methodNames)(target), target a class: the
\* check of every method name, then the accessor, then the methods.
\* Object.defineProperty throws a TypeError when the accessor is there already.
MixinDecorate(w, methodNames) ==
  LET clash == \E k \in 1..Len(methodNames) : OnPrototype(w, methodNames[k])
      w1 == IF ~ValidMethodNames(methodNames) THEN Throw(w, "Error")
            ELSE IF clash THEN Throw(w, "Error")
            ELSE IF w.mix.accessor THEN Throw(w, "TypeError")
            ELSE [w EXCEPT !.mix.accessor = TRUE,
                           !.mix.methods = @ \cup Range(methodNames)]
  IN [w1 EXCEPT !.mix.applied =
        Append(@, [clash |-> ValidMethodNames(methodNames) /\ clash,
                   thrown |-> w1.thrown,
                   defined |-> w1.mix.accessor # w.mix.accessor
                               \/ w1.mix.methods # w.mix.methods])]

\* The method emitteryMethodCaller(methodName) puts on the prototype, called
\* on the object h as h[methodName](...args):
\*   (...args) => this[emitteryPropertyName][methodName](...args)
\* this is mixinThis whatever h is.  The calls are on('a', 1) and emit('a').
emitteryMethodCaller(w, h, methodName) ==
  LET w1 == ReadProperty(w, mixinThis)
      emitter == PropertyOf(w1, mixinThis)
      w2 == IF emitter \notin Instances THEN Throw(w1, "TypeError")
            ELSE IF methodName = "on" THEN EmitterOn(w1, emitter, <<"a">>, 1, NoLog)
            ELSE EmitCall(w1, emitter, "a", <<"x">>, FALSE, TRUE, NoLog)
  IN [w2 EXCEPT !.mix.calls =
        Append(@, [host |-> h, method |-> methodName, thrown |-> w2.thrown,
                   reached |-> IF emitter \in Instances THEN emitter ELSE "none"])]

\* User code gives the class a method of its own before the mixin is applied
Declare(m) ==
  /\ m \notin mix.declared /\ ~mix.accessor
  /\ Do([World EXCEPT !.mix.declared = @ \cup {m}])

Mixin(methodNames) == Do(MixinDecorate(World, methodNames))

\* User code reads h[emitteryPropertyName]
ReadEmitter(h) == mix.own[h] = "none" /\ mix.accessor /\ Do(ReadProperty(World, h))

\* User code calls a method the mixin has put on the prototype
HostCall(h, m) == m \in mix.methods /\ Do(emitteryMethodCaller(World, h, m))

----------------------------------------------------------------------------
(* SpecMixin: a class that may have a method on of its own is decorated    *)
(* with mixin('emitter', names); its two objects read their emitter and    *)
(* call the methods the mixin has defined.                                 *)

\* How many calls of mixed-in methods a behaviour of SpecMixin makes
MaxHostCalls == 3

\* How many times the decorator is applied
MaxApplied == 2

MixinLists == {<<"on", "emit">>, <<"emit">>, <<"fly">>}

NextMixin ==
  \/ Declare("on")
  \/ \E names \in MixinLists : Len(mix.applied) < MaxApplied /\ Mixin(names)
  \/ \E h \in Hosts : ReadEmitter(h)
  \/ \E h \in Hosts, m \in {"on", "emit"} :
       Len(mix.calls) < MaxHostCalls /\ HostCall(h, m)

SpecMixin == Init /\ [][NextMixin]_vars

\* C29: every call of a mixed-in method on an object of the class returns
\* and has reached the emitter that object owns; the calls on one object
\* reach one emitter and the calls on two objects reach two; and an
\* application of the mixin that names a method the class has already throws
\* an Error and defines nothing.
C29_MixinDelegatesToOwnEmitter ==
  /\ \A c \in 1..Len(mix.calls) :
       /\ mix.calls[c].thrown = "none"
       /\ mix.calls[c].reached # "none"
       /\ mix.calls[c].reached = mix.own[mix.calls[c].host]
  /\ \A c, d \in 1..Len(mix.calls) :
       (mix.calls[c].host = mix.calls[d].host)
         <=> (mix.calls[c].reached = mix.calls[d].reached)
  /\ \A a \in 1..Len(mix.applied) :
       mix.applied[a].clash => mix.applied[a].thrown = "Error" /\ ~mix.applied[a].defined

----------------------------------------------------------------------------
(* LRUCache (src/src/object.ts): a Map from key to node and a doubly       *)
(* linked list of the nodes between the dummy nodes head and tail.         *)

\* new LRUCache(maxSize)
LRUCacheNew(w, maxSize) ==
  [w EXCEPT !.lru = [NoCache EXCEPT !.built = TRUE, !.maxSize = maxSize,
                                    !.nodes[head].next = tail,
                                    !.nodes[tail].prev = head]]

\* addNode(node): always right after head
addNode(w, node) ==
  LET w1 == [w EXCEPT !.lru.nodes[node].prev = head,
                      !.lru.nodes[node].next = w.lru.nodes[head].next]
      w2 == [w1 EXCEPT !.lru.nodes[w1.lru.nodes[head].next].prev = node]
  IN [w2 EXCEPT !.lru.nodes[head].next = node]

\* removeNode(node)
removeNode(w, node) ==
  LET prev == w.lru.nodes[node].prev
      next == w.lru.nodes[node].next
      w1 == [w EXCEPT !.lru.nodes[prev].next = next]
  IN [w1 EXCEPT !.lru.nodes[next].prev = prev]

moveToHead(w, node) == addNode(removeNode(w, node), node)

\* removeTail(): the node it returns is w.lru.nodes[tail].prev
removeTail(w) == removeNode(w, w.lru.nodes[tail].prev)

\* cache.size
CacheSize(w) == Cardinality({k \in Keys : w.lru.cache[k] # nil})

\* new Node(key, value): a node nothing refers to
NewNode(w) == CHOOSE n \in NodeIds :
  /\ \A k \in Keys : w.lru.cache[k] # n
  /\ \A m \in NodeIds : m < n => \E k \in Keys : w.lru.cache[k] = m

\* A node nothing refers to any longer is garbage: its fields are forgotten
Collect(w) ==
  [w EXCEPT !.lru.nodes = [n \in DOMAIN @ |->
     IF n \in NodeIds /\ \A k \in Keys : w.lru.cache[k] # n
     THEN Node("0", "0") ELSE @[n]]]

\* Mutant of LRUCacheGet: the node stays where it is.
LRUCacheGetInPlace(w, key) ==
  LET node == w.lru.cache[key] IN
  IF node = nil THEN [w EXCEPT !.lru.out = undefined]
  ELSE [w EXCEPT !.lru.out = w.lru.nodes[node].value]

\* get(key)
LRUCacheGet(w, key) ==
  LET node == w.lru.cache[key] IN
  IF node = nil THEN [w EXCEPT !.lru.out = undefined]
  ELSE [moveToHead(w, node) EXCEPT !.lru.out = w.lru.nodes[node].value]

\* set(key, value)
LRUCacheSet(w, key, value) ==
  LET node == w.lru.cache[key] IN
  IF node # nil
  THEN [moveToHead([w EXCEPT !.lru.nodes[node].value = value], node)
          EXCEPT !.lru.out = undefined]
  ELSE LET newNode == NewNode(w)
           w1 == [w EXCEPT !.lru.nodes[newNode] = Node(key, value),
                           !.lru.cache[key] = newNode]
           w2 == addNode(w1, newNode)
           tailNode == w2.lru.nodes[tail].prev
           w3 == IF CacheSize(w2) > w2.lru.maxSize
                 THEN [removeTail(w2) EXCEPT !.lru.cache[w2.lru.nodes[tailNode].key] = nil]
                 ELSE w2
       IN Collect([w3 EXCEPT !.lru.out = undefined])

\* has(key)
LRUCacheHas(w, key) ==
  [w EXCEPT !.lru.out = IF w.lru.cache[key] # nil THEN "true" ELSE "false"]

\* clear()
LRUCacheClear(w) ==
  Collect([w EXCEPT !.lru.cache = [k \in Keys |-> nil],
                    !.lru.nodes[head].next = tail,
                    !.lru.nodes[tail].prev = head,
                    !.lru.out = undefined])

\* History: the keys get and set have touched since the last clear(), the
\* latest first
Touch(recent, key) == <<key>> \o SelectSeq(recent, LAMBDA k : k # key)

CacheNew(maxSize) == ~lru.built /\ Do(LRUCacheNew(World, maxSize))

CacheGet(key) ==
  /\ lru.built
  /\ Do([LRUCacheGet(World, key) EXCEPT
          !.lru.recent = IF lru.cache[key] # nil THEN Touch(@, key) ELSE @])

CacheSet(key, value) ==
  /\ lru.built
  /\ Do([LRUCacheSet(World, key, value) EXCEPT !.lru.recent = Touch(@, key)])

CacheHas(key) == lru.built /\ Do(LRUCacheHas(World, key))

CacheClear == lru.built /\ Do([LRUCacheClear(World) EXCEPT !.lru.recent = <<>>])

----------------------------------------------------------------------------
(* SpecCache: an LRUCache is built with maxSize 1..MaxCapacity and user    *)
(* code calls set, get, has and clear with three keys and two values.      *)

NextCache ==
  \/ \E m \in 1..MaxCapacity : CacheNew(m)
  \/ \E k \in Keys, v \in Values : CacheSet(k, v)
  \/ \E k \in Keys : CacheGet(k)
  \/ \E k \in Keys : CacheHas(k)
  \/ CacheClear

SpecCache == Init /\ [][NextCache]_vars

\* The keys of the map
CachedKeys(c) == {k \in Keys : c.cache[k] # nil}

\* The keys of the nodes from node n to tail along next, at most fuel of them
RECURSIVE Linked(_, _, _)
Linked(c, n, fuel) ==
  IF n = tail THEN <<>>
  ELSE IF fuel = 0 \/ n \notin NodeIds THEN <<"lost">>
  ELSE <<c.nodes[n].key>> \o Linked(c, c.nodes[n].next, fuel - 1)

\* The cached key that get and set touched the longest ago
Oldest(c) ==
  LET cached == SelectSeq(c.recent, LAMBDA k : k \in CachedKeys(c))
  IN cached[Len(cached)]

\* C30: after every step on a cache that is built, the map holds at most
\* maxSize keys and they are, each once, the keys of the nodes linked from
\* head to tail; and a step set(k, v) with k not cached and the cache full
\* evicts exactly the cached key that get and set touched the longest ago.
C30_EvictsLeastRecentlyTouched ==
  [][lru'.built =>
       /\ Cardinality(CachedKeys(lru')) <= lru'.maxSize
       /\ LET linked == Linked(lru', lru'.nodes[head].next, MaxCapacity + 1) IN
          /\ Range(linked) = CachedKeys(lru')
          /\ Len(linked) = Cardinality(CachedKeys(lru'))
       /\ \A k \in Keys, v \in Values :
            (/\ CacheSet(k, v)
             /\ k \notin CachedKeys(lru)
             /\ Cardinality(CachedKeys(lru)) = lru.maxSize)
              => CachedKeys(lru') = (CachedKeys(lru) \cup {k}) \ {Oldest(lru)}]_vars

\* In a cache of two, "p" was set before "q" and touched again after it, and
\* set("r") has evicted "q"
C30_Witness ==
  /\ lru.built /\ lru.maxSize = Cardinality({"p", "r"})
  /\ lru.recent = <<"r", "p", "q">>
  /\ CachedKeys(lru) = {"p", "r"}
  /\ lru.cache["p"] < lru.cache["r"]
  /\ lru.nodes[lru.cache["p"]].prev = lru.cache["r"]

----------------------------------------------------------------------------
(* deepMerge(target, ...sources) (src/src/object.ts), on a memory m: the   *)
(* heap of objects and how many objects {} the call has created.           *)

\* obj[key]: the own property, else up the prototype chain; __proto__ is the
\* accessor of Object.prototype, which gives the prototype of obj
RECURSIVE Get(_, _, _)
Get(m, obj, key) ==
  IF m.heap[obj].props[key] # "absent" THEN m.heap[obj].props[key]
  ELSE IF key = "__proto__" THEN m.heap[obj].proto
  ELSE IF m.heap[obj].proto = null THEN undefined
  ELSE Get(m, m.heap[obj].proto, key)

\* obj[key] = value: an own property, but for __proto__ on an object without
\* such an own property, where the accessor sets the prototype of obj when the
\* value is an object or null
Put(m, obj, key, value) ==
  IF key = "__proto__" /\ m.heap[obj].props[key] = "absent"
  THEN (IF value \in Objects \cup {null} THEN [m EXCEPT !.heap[obj].proto = value] ELSE m)
  ELSE [m EXCEPT !.heap[obj].props[key] = value]

\* isMergableObject(item): toString gives [object Object] and it is no array
isMergableObject(item) == item \in Objects

\* !value
Falsy(value) == value \in {undefined, null, "zero"}

\* objectKeys(obj): the own keys, in insertion order
objectKeys(m, obj) == SelectSeq(KeyOrder, LAMBDA k : m.heap[obj].props[k] # "absent")

\* target[key] = {}
PutNew(m, obj, key) ==
  Put([m EXCEPT !.fresh = @ + 1], obj, key, FreshPool[m.fresh + 1])

RECURSIVE deepMerge(_, _, _)
RECURSIVE MergeKeys(_, _, _, _, _)

\* The forEach over objectKeys(source), from the k-th key on
MergeKeys(m, target, source, keys, k) ==
  IF k > Len(keys) THEN m
  ELSE LET key == keys[k]
           value == m.heap[source].props[key]
           m1 == IF key \in ForbiddenKeys THEN m
                 ELSE IF isMergableObject(value)
                 THEN LET m2 == IF Falsy(Get(m, target, key))
                                THEN PutNew(m, target, key) ELSE m
                      IN IF isMergableObject(Get(m2, target, key))
                         THEN deepMerge(m2, Get(m2, target, key), <<value>>)
                         ELSE Put(m2, target, key, value)
                 ELSE Put(m, target, key, value)
       IN MergeKeys(m1, target, source, keys, k + 1)

deepMerge(m, target, sources) ==
  IF sources = <<>> THEN m
  ELSE LET source == Head(sources) IN
       IF source = undefined THEN m
       ELSE deepMerge(IF isMergableObject(target) /\ isMergableObject(source)
                      THEN MergeKeys(m, target, source, objectKeys(m, source), 1)
                      ELSE m,
                      target, Tail(sources))

\* What user code builds before the call: the target {} or {a: tv}; the first
\* source {k1: v1} or {k1: {k2: v1}} or {k1: {k2: {polluted: v1}}}, as
\* JSON.parse builds it, __proto__ being an own property then; and no second
\* source, or {a: v2}, or {a: {polluted: v2}}
TargetValues == {"absent", "v1", "zero", "arr", "ta"}
FirstKeys == {"a", "__proto__", "constructor"}
SecondKeys == {"polluted", "__proto__"}
Depths == {"flat", "nested", "deep"}
SecondSources == {"none", "flat", "nested"}

Arranged(tv, k1, k2, depth, second) ==
  LET h0 == NoObjects.heap
      h1 == [h0 EXCEPT
               !["t"].props["a"] = tv,
               !["s1"].props[k1] = IF depth = "flat" THEN "v1" ELSE "s1i",
               !["s1i"].props[k2] = IF depth = "flat" THEN "absent"
                                    ELSE IF depth = "nested" THEN "v1" ELSE "s1l",
               !["s1l"].props["polluted"] = IF depth = "deep" THEN "v1" ELSE "absent",
               !["s2"].props["a"] = IF second = "none" THEN "absent"
                                    ELSE IF second = "flat" THEN "v2" ELSE "s2i",
               !["s2i"].props["polluted"] = IF second = "nested" THEN "v2" ELSE "absent"]
  IN [NoObjects EXCEPT !.built = TRUE, !.heap = h1, !.before = h1,
                       !.sources = IF second = "none" THEN <<"s1">> ELSE <<"s1", "s2">>]

Arrange(tv, k1, k2, depth, second) ==
  /\ ~mem.built
  /\ depth = "flat" => k2 = "polluted"
  /\ Do([World EXCEPT !.mem = Arranged(tv, k1, k2, depth, second)])

\* deepMerge(t, s1) or deepMerge(t, s1, s2)
DeepMergeCall ==
  /\ mem.built /\ ~mem.done
  /\ Do([World EXCEPT !.mem = [deepMerge(mem, "t", mem.sources) EXCEPT !.done = TRUE]])

----------------------------------------------------------------------------
(* SpecMerge: user code builds a target and one or two sources and calls   *)
(* deepMerge once.                                                         *)

NextMerge ==
  \/ \E tv \in TargetValues, k1 \in FirstKeys, k2 \in SecondKeys, depth \in Depths,
        second \in SecondSources : Arrange(tv, k1, k2, depth, second)
  \/ DeepMergeCall

SpecMerge == Init /\ [][NextMerge]_vars

\* The objects nested in the objects found, these included: what their own
\* properties hold, and so on
RECURSIVE Nested(_, _)
Nested(heap, found) ==
  LET more == found \cup {heap[o].props[k] : o \in found, k \in Range(KeyOrder)}
      objs == more \cap Objects
  IN IF objs = found THEN found ELSE Nested(heap, objs)

\* C31: after deepMerge(t, ...sources), no object nested in the target has an
\* own key __proto__, constructor or prototype it did not have before; the
\* objects that were not nested in the target before the call, Object.prototype
\* and the sources among them, are as they were; and polluted is read neither
\* on the target nor on the object u.
C31_NoProtoKeyCopied ==
  mem.done =>
    /\ \A o \in Nested(mem.heap, {"t"}), k \in ForbiddenKeys :
         mem.heap[o].props[k] # "absent"
           => o \in Nested(mem.before, {"t"}) /\ mem.before[o].props[k] # "absent"
    /\ \A o \in Objects \ (Nested(mem.before, {"t"}) \cup Range(FreshPool)) :
         mem.heap[o] = mem.before[o]
    /\ Get(mem, "t", "polluted") = undefined
    /\ Get(mem, "u", "polluted") = undefined

=============================================================================
